---- MODULE Spec2Model ----
(***************************************************************************)
(* Forecast allocation and variance analytics of the Actual page           *)
(* (app/actual/page.tsx): the page state, its data-loading effects and     *)
(* the memoised aggregations, as a state machine.                          *)
(*                                                                         *)
(* Conventions.  A JavaScript string is a sequence of one-character        *)
(* strings and null is the reserved value Null.  A raw numeric cell of the *)
(* store is a tagged pair (Num(5), NullNum, NaNNum).  A JavaScript number  *)
(* computed by the page is an exact rational <<numerator, denominator>>    *)
(* in lowest terms with a positive denominator.  An ISO date is the triple *)
(* <<year, month, day>>; a model month has NumDays days.                   *)
(***************************************************************************)
EXTENDS Integers, Sequences, FiniteSets, TLC

\* ------------------------------------------------------------------ bounds
NumDays == 2
MaxRows == 2
MaxStale == 1

\* ----------------------------------------------------------------- strings
Null == <<"null">>
Empty == << >>
Dash == <<"-">>

Coalesce(x, d) == IF x = Null THEN d ELSE x

RECURSIVE TrimLeft(_)
TrimLeft(s) == IF s # Empty /\ Head(s) = " " THEN TrimLeft(Tail(s)) ELSE s

RECURSIVE TrimRight(_)
TrimRight(s) ==
  IF s # Empty /\ s[Len(s)] = " " THEN TrimRight(SubSeq(s, 1, Len(s) - 1)) ELSE s

Trim(s) == TrimRight(TrimLeft(s))

UpperLetters ==
  <<"A", "B", "C", "D", "E", "F", "G", "H", "I", "J", "K", "L", "M",
    "N", "O", "P", "Q", "R", "S", "T", "U", "V", "W", "X", "Y", "Z">>
LowerLetters ==
  <<"a", "b", "c", "d", "e", "f", "g", "h", "i", "j", "k", "l", "m",
    "n", "o", "p", "q", "r", "s", "t", "u", "v", "w", "x", "y", "z">>

LowerChar(c) ==
  IF \E i \in 1..Len(UpperLetters) : UpperLetters[i] = c
  THEN LowerLetters[CHOOSE i \in 1..Len(UpperLetters) : UpperLetters[i] = c]
  ELSE c

toLowerCase(s) == [i \in 1..Len(s) |-> LowerChar(s[i])]

\* ----------------------------------------------------------------- numbers
Num(n) == <<"num", n>>
NullNum == <<"null", 0>>
NaNNum == <<"nan", 0>>

\* Number(null) is 0, Number("abc") is NaN and takes the default.
safeNumber(n, d) ==
  CASE n[1] = "num" -> n[2]
    [] n[1] = "null" -> 0
    [] OTHER -> d

Abs(x) == IF x < 0 THEN -x ELSE x
Max(a, b) == IF a >= b THEN a ELSE b

RECURSIVE GCD(_, _)
GCD(a, b) == IF b = 0 THEN a ELSE GCD(b, a % b)

Rat(n, d) ==
  LET g == GCD(Abs(n), Abs(d))
      s == IF d < 0 THEN -1 ELSE 1
  IN  <<(s * n) \div g, (s * d) \div g>>

Zero == <<0, 1>>
RInt(n) == <<n, 1>>
RAdd(a, b) == Rat(a[1] * b[2] + b[1] * a[2], a[2] * b[2])
RSub(a, b) == Rat(a[1] * b[2] - b[1] * a[2], a[2] * b[2])
RMul(a, b) == Rat(a[1] * b[1], a[2] * b[2])
RDiv(a, b) == Rat(a[1] * b[2], a[2] * b[1])
RLe(a, b) == a[1] * b[2] <= b[1] * a[2]
RLt(a, b) == a[1] * b[2] < b[1] * a[2]
RFloor(a) == a[1] \div a[2]
RCeil(a) == -((-a[1]) \div a[2])

\* Number(x.toFixed(2)): the nearest multiple of 0.01, a tie going away from 0.
toFixed2(a) ==
  LET q == (200 * Abs(a[1]) + a[2]) \div (2 * a[2])
  IN  Rat(IF a[1] < 0 THEN -q ELSE q, 100)

RECURSIVE SumSeq(_)
SumSeq(s) == IF s = << >> THEN 0 ELSE Head(s) + SumSeq(Tail(s))

RECURSIVE RSumSeq(_)
RSumSeq(s) == IF s = << >> THEN Zero ELSE RAdd(Head(s), RSumSeq(Tail(s)))

Range(s) == {s[i] : i \in 1..Len(s)}

\* An array given by its elements, held as a tuple.
Array(f) == f \o << >>

\* ------------------------------------------------------------------- dates
NullDate == <<0, 0, 0>>

monthRange(year, month) ==
  [start |-> <<year, month, 1>>, end |-> <<year, month, NumDays>>]

listMonthDates(year, month) == Array([d \in 1..NumDays |-> <<year, month, d>>])

nextMonthStart(year, month) ==
  IF month = 12 THEN <<year + 1, 1, 1>> ELSE <<year, month + 1, 1>>

\* ISO dates compare as strings: lexicographically by year, month, day.
DateLe(a, b) ==
  \/ a[1] < b[1]
  \/ a[1] = b[1] /\ a[2] < b[2]
  \/ a[1] = b[1] /\ a[2] = b[2] /\ a[3] <= b[3]

DateLt(a, b) == DateLe(a, b) /\ a # b

\* The store returns DATE columns as YYYY-MM-DD, which the first pattern
\* returns unchanged; a null cell gives null.
normalizeDateString(x) == IF x = NullDate THEN NullDate ELSE x

indexOf(dates, d) ==
  IF \E i \in 1..Len(dates) : dates[i] = d
  THEN CHOOSE i \in 1..Len(dates) : dates[i] = d /\ \A j \in 1..(i - 1) : dates[j] # d
  ELSE 0

\* ------------------------------------------------------------------- store
\* The external row store: one sequence of rows per table, and the tables
\* whose reads fail (the query resolves with data null and an error).
M1 == <<"M", "1">>
M2 == <<"M", "2">>
DeptA == <<"A">>
DeptB == <<"B">>
DeptZ == <<"Z", "Z", "Z">>
CatDM == <<"D", "M">>
CatIM == <<"i", "m", " ">>

Years == {2024, 2025}
Months == {1, 12}
Now == [year |-> 2025, month |-> 1]
Tables == {"master", "shop", "calender1", "calender2", "actual", "forecast"}

VARIABLES
  db,            \* the store (never written by the page)
  filters,       \* useState<FilterState>
  deptOptions,   \* useState<string[]>, as the set of its elements
  masterMap,     \* useState<Record<string, MasterRow>>
  shopMap,       \* useState<Record<string, number>>
  cal1, cal2,    \* useState<Record<string, number>>
  actualRows,    \* useState<ActualRow[]>
  forecastRows,  \* useState<ForecastRow[]>
  actual3m,      \* useState<ActualRow[]>, the rows of the last three months
  forecast3m,    \* useState<ForecastRow[]>
  inflight,      \* the effect runs whose reads have not resolved yet
  hist,          \* history: the period the stored calendars and rows were
                 \* fetched for, the reads that failed, and whether a
                 \* superseded response arrived after its successor
  imp            \* the Actual import page: its useState and its running call

vars == <<db, filters, deptOptions, masterMap, shopMap, cal1, cal2,
          actualRows, forecastRows, actual3m, forecast3m, inflight, hist, imp>>

EmptyMap == [x \in {} |-> 0]

\* supabase.from(t).select(...): {data, error}
Query(t, rows) ==
  IF t \in db.down THEN [data |-> << >>, error |-> TRUE]
  ELSE [data |-> rows, error |-> FALSE]

\* data ?? []
OrEmpty(res) == IF res.error THEN << >> ELSE res.data

inRange(d, start, end) == DateLe(start, d) /\ DateLe(d, end)

selectCalendar(t, rows, year, month) ==
  LET rg == monthRange(year, month)
      keep(r) == r.date # NullDate /\ inRange(r.date, rg.start, rg.end)
  IN  Query(t, SelectSeq(rows, keep))

selectActual(year, month) ==
  LET rg == monthRange(year, month)
      keep(r) == r.posting_date # NullDate
                 /\ inRange(r.posting_date, rg.start, rg.end)
  IN  Query("actual", SelectSeq(db.actual, keep))

selectForecast(year, month) ==
  LET rg == monthRange(year, month)
      keep(r) == r.month # NullDate /\ DateLe(rg.start, r.month)
                 /\ DateLt(r.month, nextMonthStart(year, month))
  IN  Query("forecast", SelectSeq(db.forecast, keep))

\* Mutant of monthsBack: the month wraps around without the year changing.
monthsBackSameYear(year, month, k) ==
  <<year, ((month - 1 - k) % 12) + 1>>

\* Date.UTC(year, (month - 1) - k, 1): the month k months before, as <<year, month>>.
monthsBack(year, month, k) ==
  LET t == (year * 12 + (month - 1)) - k
  IN  <<t \div 12, (t % 12) + 1>>

\* start3: the first day of the month two months before the selected one.
start3(year, month) ==
  LET ym == monthsBack(year, month, 2) IN <<ym[1], ym[2], 1>>

select3Actual(year, month) ==
  LET keep(r) == r.posting_date # NullDate
                 /\ inRange(r.posting_date, start3(year, month),
                            monthRange(year, month).end)
  IN  Query("actual", SelectSeq(db.actual, keep))

select3Forecast(year, month) ==
  LET keep(r) == r.month # NullDate /\ DateLe(start3(year, month), r.month)
                 /\ DateLt(r.month, nextMonthStart(year, month))
  IN  Query("forecast", SelectSeq(db.forecast, keep))

\* ------------------------------------------------------- effect responses
\* A later assignment to the same key overwrites an earlier one.
LastIndex(idx) == CHOOSE i \in idx : \A j \in idx : j <= i

buildMasterMap(m) ==
  LET keys == {m[i].no_mat : i \in 1..Len(m)} \ {Null, Empty}
  IN  [k \in keys |->
        LET r == m[LastIndex({i \in 1..Len(m) : m[i].no_mat = k})]
        IN  [price |-> safeNumber(r.Price, 0),
             quantity |-> Max(1, safeNumber(r.qty, 1)),
             category |-> r.category]]

buildShopMap(s) ==
  LET keys == {Trim(Coalesce(s[i].dept, Empty)) : i \in 1..Len(s)} \ {Empty}
  IN  [k \in keys |->
        LET last == LastIndex({i \in 1..Len(s) : Trim(Coalesce(s[i].dept, Empty)) = k})
        IN  safeNumber(s[last].loc, 1)]

buildDeptOptions(data) ==
  {Trim(Coalesce(data[i].dept, Empty)) : i \in 1..Len(data)} \ {Empty}

dayWeight(r) == safeNumber(r.working_time, 0) + safeNumber(r.over_time, 0)

\* Mutant of buildCalMap: no uniform fallback for a month without load.
buildCalMapNoFallback(c, year, month) ==
  LET keys == {normalizeDateString(c[i].date) : i \in 1..Len(c)} \ {NullDate}
  IN  [d \in keys |->
        dayWeight(c[LastIndex({i \in 1..Len(c) : normalizeDateString(c[i].date) = d})])]

buildCalMap(c, year, month) ==
  LET keys == {normalizeDateString(c[i].date) : i \in 1..Len(c)} \ {NullDate}
      map == [d \in keys |->
               dayWeight(c[LastIndex({i \in 1..Len(c) :
                                        normalizeDateString(c[i].date) = d})])]
      counted(r) == normalizeDateString(r.date) # NullDate
      kept == SelectSeq(c, counted)
      tot == SumSeq([i \in 1..Len(kept) |-> dayWeight(kept[i])])
      monthDates == Range(listMonthDates(year, month))
  IN  IF tot = 0
      THEN [d \in keys \cup monthDates |-> IF d \in monthDates THEN 1 ELSE map[d]]
      ELSE map

mapActual(a) ==
  LET row(r) == [no_mat |-> r.no_mat,
                 posting_date |-> normalizeDateString(r.posting_date),
                 document_date |-> normalizeDateString(r.document_date),
                 quantity |-> safeNumber(r.quantity, 0),
                 dept |-> r.dept]
      dated(r) == r.posting_date # NullDate
  IN  SelectSeq([i \in 1..Len(a) |-> row(a[i])], dated)

mapForecast(f) ==
  [i \in 1..Len(f) |->
    [no_mat |-> f[i].no_mat,
     shop |-> f[i].shop,
     quantity |-> safeNumber(f[i].usage, 0),
     month |-> normalizeDateString(f[i].month)]]

\* ------------------------------------------------- shared filters, helpers
deptSet == deptOptions

\* Mutant of isDeptAllowed: unassigned mode requires a non-empty value.
isDeptAllowedNonEmpty(rowDept, rowShop) ==
  IF filters.deptMode = "all" THEN TRUE
  ELSE IF filters.deptMode = "list"
  THEN LET target == Trim(Coalesce(filters.deptSelected, Empty))
       IN  \/ rowDept # Null /\ Trim(rowDept) = target
           \/ rowShop # Null /\ Trim(rowShop) = target
  ELSE LET v == Trim(Coalesce(Coalesce(rowDept, rowShop), Empty))
       IN  v # Empty /\ v \notin deptSet

\* Mutant of isDeptAllowed: list mode compares the untrimmed row value.
isDeptAllowedExact(rowDept, rowShop) ==
  IF filters.deptMode = "all" THEN TRUE
  ELSE IF filters.deptMode = "list"
  THEN LET target == Trim(Coalesce(filters.deptSelected, Empty))
       IN  rowDept = target \/ rowShop = target
  ELSE LET v == Trim(Coalesce(Coalesce(rowDept, rowShop), Empty))
       IN  v = Empty \/ v \notin deptSet

isDeptAllowed(rowDept, rowShop) ==
  IF filters.deptMode = "all" THEN TRUE
  ELSE IF filters.deptMode = "list"
  THEN LET target == Trim(Coalesce(filters.deptSelected, Empty))
       IN  \/ rowDept # Null /\ Trim(rowDept) = target
           \/ rowShop # Null /\ Trim(rowShop) = target
  ELSE LET v == Trim(Coalesce(Coalesce(rowDept, rowShop), Empty))
       IN  v = Empty \/ v \notin deptSet

DirectNames ==
  { <<"d", "i", "r", "e", "c", "t">>,
    <<"d", "i", "r", "e", "c", "t", " ", "m", "a", "t", "e", "r", "i", "a", "l">>,
    <<"d", "m">> }

IndirectNames ==
  { <<"i", "n", "d", "i", "r", "e", "c", "t">>,
    <<"i", "n", "d", "i", "r", "e", "c", "t", " ",
      "m", "a", "t", "e", "r", "i", "a", "l">>,
    <<"i", "m">> }

\* Mutant of normalizeCategory: the text is compared in its own case.
normalizeCategoryCased(raw) ==
  LET s == Trim(Coalesce(raw, Empty))
  IN  IF s \in DirectNames THEN "Direct Material"
      ELSE IF s \in IndirectNames THEN "Indirect Material"
      ELSE "Unassigned"

normalizeCategory(raw) ==
  LET s == toLowerCase(Trim(Coalesce(raw, Empty)))
  IN  IF s \in DirectNames THEN "Direct Material"
      ELSE IF s \in IndirectNames THEN "Indirect Material"
      ELSE "Unassigned"

categoryOf(no_mat) ==
  IF no_mat \in DOMAIN masterMap THEN masterMap[no_mat].category ELSE Null

\* Mutant of isMaterialAllowed: mode Unassigned asks for a master row.
isMaterialAllowedKnown(no_mat) ==
  LET norm == normalizeCategory(categoryOf(no_mat))
  IN  IF filters.material = "all" THEN TRUE
      ELSE IF filters.material = "Unassigned"
      THEN norm = "Unassigned" /\ no_mat \in DOMAIN masterMap
      ELSE norm = filters.material

isMaterialAllowed(no_mat) ==
  LET norm == normalizeCategory(categoryOf(no_mat))
  IN  IF filters.material = "all" THEN TRUE
      ELSE IF filters.material = "Unassigned" THEN norm = "Unassigned"
      ELSE norm = filters.material

\* Mutant of vpu: a material without a master row is worth 1 a unit.
vpuDefaultOne(no_mat) ==
  IF no_mat \notin DOMAIN masterMap THEN RInt(1)
  ELSE Rat(masterMap[no_mat].price, Max(1, masterMap[no_mat].quantity))

vpu(no_mat) ==
  IF no_mat \notin DOMAIN masterMap THEN Zero
  ELSE Rat(masterMap[no_mat].price, Max(1, masterMap[no_mat].quantity))

\* ---------------------------------------------------------- filtered tables
actualPasses(r) == isMaterialAllowed(r.no_mat) /\ isDeptAllowed(r.dept, Null)

filteredActual ==
  LET kept == SelectSeq(actualRows, actualPasses)
  IN  Array([i \in 1..Len(kept) |->
        [posting_date |-> kept[i].posting_date,
         no_mat |-> kept[i].no_mat,
         dept |-> Coalesce(kept[i].dept, Empty),
         quantity |-> kept[i].quantity,
         value |-> toFixed2(RMul(RInt(kept[i].quantity), vpu(kept[i].no_mat)))]])

forecastPasses(r) == isMaterialAllowed(r.no_mat) /\ isDeptAllowed(Null, r.shop)

locOf(shop) ==
  LET k == Trim(Coalesce(shop, Empty))
  IN  IF k \in DOMAIN shopMap THEN shopMap[k] ELSE 1

filteredForecast ==
  LET kept == SelectSeq(forecastRows, forecastPasses)
  IN  Array([i \in 1..Len(kept) |->
        [shop |-> Coalesce(kept[i].shop, Empty),
         loc |-> locOf(kept[i].shop),
         no_mat |-> kept[i].no_mat,
         quantity |-> kept[i].quantity,
         value |-> toFixed2(RMul(RInt(kept[i].quantity), vpu(kept[i].no_mat)))]])

\* --------------------------------------------------------- graph aggregation
graphModeDates == listMonthDates(filters.year, filters.month)

rawWeights(cal) ==
  Array([i \in 1..Len(graphModeDates) |->
    IF graphModeDates[i] \in DOMAIN cal THEN cal[graphModeDates[i]] ELSE 0])

\* Mutant of weightTotal: normalising by the number of days.
weightTotalByDays(w) == Len(w)

\* Mutant of weightTotal: the sum as it is, also when it is 0.
weightTotalSum(w) == SumSeq(w)

\* w.reduce((a, b) => a + b, 0) || 1
weightTotal(w) == IF SumSeq(w) = 0 THEN 1 ELSE SumSeq(w)

normalizeWeights(w) ==
  LET s == weightTotal(w) IN Array([i \in 1..Len(w) |-> Rat(w[i], s)])

weights ==
  [dates |-> graphModeDates,
   w1 |-> normalizeWeights(rawWeights(cal1)),
   w2 |-> normalizeWeights(rawWeights(cal2))]

packOf(no_mat) ==
  Max(1, IF no_mat \in DOMAIN masterMap THEN masterMap[no_mat].quantity ELSE 1)

\* cumUnits after day i of a line of the given quantity: the unrounded
\* running sum of quantity * weightsArr[day].
RECURSIVE cumUnits(_, _, _)
cumUnits(quantity, weightsArr, i) ==
  IF i = 0 THEN Zero
  ELSE RAdd(cumUnits(quantity, weightsArr, i - 1),
            RMul(RInt(quantity), weightsArr[i]))

\* Mutant of floorUnits: Math.round in place of Math.floor.
floorUnitsRounded(units, pack) ==
  RFloor(RAdd(RDiv(units, RInt(pack)), Rat(1, 2))) * pack

floorUnits(units, pack) == RFloor(RDiv(units, RInt(pack))) * pack

\* Mutant of ceilUnits: the next pack above the floor, also on a pack boundary.
ceilUnitsNextPack(units, pack) == RFloor(RDiv(units, RInt(pack))) * pack + pack

ceilUnits(units, pack) == RCeil(RDiv(units, RInt(pack))) * pack

\* The contribution of forecast line r to the three cumulative series
\* on each day.
lineSeries(r, w) ==
  LET weightsArr == IF r.loc = 2 THEN w.w2 ELSE w.w1
      pack == packOf(r.no_mat)
      unitPrice == vpu(r.no_mat)
  IN  Array([i \in 1..Len(w.dates) |->
        LET units == cumUnits(r.quantity, weightsArr, i)
        IN  [units |-> units,
             mid |-> RMul(units, unitPrice),
             lower |-> RMul(RInt(floorUnits(units, pack)), unitPrice),
             upper |-> RMul(RInt(ceilUnits(units, pack)), unitPrice)]])

forecastSeriesOf(ff, w) == Array([k \in 1..Len(ff) |-> lineSeries(ff[k], w)])

forecastSeries == forecastSeriesOf(filteredForecast, weights)

\* Mutant of forecastCumOf: the pack rounding is applied to the units of
\* all lines of a material together, not to each line's own units.
forecastCumPooled(ff, w) ==
  LET fs == forecastSeriesOf(ff, w)
      n == Len(w.dates)
      first(k) == \A j \in 1..(k - 1) : ff[j].no_mat # ff[k].no_mat
      pooled(k, i) ==
        RSumSeq([j \in 1..Len(ff) |->
          IF ff[j].no_mat = ff[k].no_mat THEN fs[j][i].units ELSE Zero])
      lower(k, i) ==
        IF first(k)
        THEN RMul(RInt(RFloor(RDiv(pooled(k, i), RInt(packOf(ff[k].no_mat))))
                       * packOf(ff[k].no_mat)), vpu(ff[k].no_mat))
        ELSE Zero
      upper(k, i) ==
        IF first(k)
        THEN RMul(RInt(RCeil(RDiv(pooled(k, i), RInt(packOf(ff[k].no_mat))))
                       * packOf(ff[k].no_mat)), vpu(ff[k].no_mat))
        ELSE Zero
  IN  [cumMidByIdx |->
         Array([i \in 1..n |-> RSumSeq([k \in 1..Len(fs) |-> fs[k][i].mid])]),
       cumLowerByIdx |->
         Array([i \in 1..n |-> RSumSeq([k \in 1..Len(fs) |-> lower(k, i)])]),
       cumUpperByIdx |->
         Array([i \in 1..n |-> RSumSeq([k \in 1..Len(fs) |-> upper(k, i)])])]

\* The three cumulative forecast arrays of the lines ff: per day, the sum
\* of the lines' contributions.
forecastCumOf(ff, w) ==
  LET fs == forecastSeriesOf(ff, w)
      n == Len(w.dates)
  IN  [cumMidByIdx |->
         Array([i \in 1..n |-> RSumSeq([k \in 1..Len(fs) |-> fs[k][i].mid])]),
       cumLowerByIdx |->
         Array([i \in 1..n |-> RSumSeq([k \in 1..Len(fs) |-> fs[k][i].lower])]),
       cumUpperByIdx |->
         Array([i \in 1..n |-> RSumSeq([k \in 1..Len(fs) |-> fs[k][i].upper])])]

forecastCum == forecastCumOf(filteredForecast, weights)

\* Mutant of actualDaily: every transaction counts on every day.
actualDailyUnbucketed(fa, dates, i) ==
  RSumSeq([k \in 1..Len(fa) |-> fa[k].value])

actualDaily(fa, dates, i) ==
  RSumSeq([k \in 1..Len(fa) |->
    IF indexOf(dates, fa[k].posting_date) = i THEN fa[k].value ELSE Zero])

RECURSIVE cumActualByIdx(_, _, _)
cumActualByIdx(fa, dates, i) ==
  IF i = 0 THEN Zero
  ELSE toFixed2(RAdd(cumActualByIdx(fa, dates, i - 1), actualDaily(fa, dates, i)))

graphData ==
  LET dates == graphModeDates
      fa == filteredActual
      fc == forecastCum
      cumMid == fc.cumMidByIdx
      cumLower == fc.cumLowerByIdx
      cumUpper == fc.cumUpperByIdx
  IN  Array([i \in 1..Len(dates) |->
        LET cumA == toFixed2(cumActualByIdx(fa, dates, i))
            cumM == toFixed2(cumMid[i])
            cumLo == toFixed2(cumLower[i])
            cumUp == toFixed2(cumUpper[i])
        IN  [date |-> dates[i][3],
             actual |-> toFixed2(actualDaily(fa, dates, i)),
             forecast |-> toFixed2(RSub(cumMid[i], IF i > 1 THEN cumMid[i - 1] ELSE Zero)),
             cumActual |-> cumA,
             cumForecast |-> cumM,
             cumForecastLower |-> cumLo,
             cumForecastUpper |-> cumUp,
             bandBottom |-> toFixed2(RSub(cumM, cumLo)),
             bandTop |-> toFixed2(RSub(cumUp, cumM))]])

sumA == LET g == graphData IN RSumSeq([i \in 1..Len(g) |-> g[i].actual])
sumF == LET g == graphData IN RSumSeq([i \in 1..Len(g) |-> g[i].forecast])

\* ------------------------------------------- month totals per dept+material
deptLabel(d) == IF Trim(Coalesce(d, Empty)) = Empty THEN Dash ELSE Trim(Coalesce(d, Empty))

totalsKey(dept, no_mat) == dept \o <<"|">> \o no_mat

\* The rows in the order the two loops visit them, with their key.
totalsVisits ==
  [k \in 1..Len(filteredForecast) |->
    [key |-> totalsKey(deptLabel(filteredForecast[k].shop), filteredForecast[k].no_mat),
     dept |-> deptLabel(filteredForecast[k].shop),
     no_mat |-> filteredForecast[k].no_mat,
     forecastValue |-> RMul(RInt(filteredForecast[k].quantity), vpu(filteredForecast[k].no_mat)),
     actualValue |-> Zero]]
  \o
  [k \in 1..Len(filteredActual) |->
    [key |-> totalsKey(deptLabel(filteredActual[k].dept), filteredActual[k].no_mat),
     dept |-> deptLabel(filteredActual[k].dept),
     no_mat |-> filteredActual[k].no_mat,
     forecastValue |-> Zero,
     actualValue |-> RMul(RInt(filteredActual[k].quantity), vpu(filteredActual[k].no_mat))]]

\* Mutant of monthTotalsByDeptMat: a row replaces the total of its key.
monthTotalsLastRow ==
  LET v == totalsVisits
      keys == {v[i].key : i \in 1..Len(v)}
  IN  [key \in keys |->
        LET first == CHOOSE i \in 1..Len(v) :
                       v[i].key = key /\ \A j \in 1..(i - 1) : v[j].key # key
            last == LastIndex({i \in 1..Len(v) : v[i].key = key})
        IN  [dept |-> v[first].dept,
             no_mat |-> v[first].no_mat,
             forecastValue |-> v[last].forecastValue,
             actualValue |-> v[last].actualValue]]

monthTotalsByDeptMat ==
  LET v == totalsVisits
      keys == {v[i].key : i \in 1..Len(v)}
  IN  [key \in keys |->
        LET first == CHOOSE i \in 1..Len(v) :
                       v[i].key = key /\ \A j \in 1..(i - 1) : v[j].key # key
        IN  [dept |-> v[first].dept,
             no_mat |-> v[first].no_mat,
             forecastValue |->
               RSumSeq([i \in 1..Len(v) |->
                 IF v[i].key = key THEN v[i].forecastValue ELSE Zero]),
             actualValue |->
               RSumSeq([i \in 1..Len(v) |->
                 IF v[i].key = key THEN v[i].actualValue ELSE Zero])]]

\* ------------------------------------------------------ delay transactions
\* new Date(iso).getTime() / 86400000: the day number of a date.
dayNumber(d) == ((d[1] * 12) + (d[2] - 1)) * NumDays + (d[3] - 1)

\* Mutant of isDelayed: a document date equal to the posting date counts.
isDelayedOrSameDay(r) ==
  r.document_date # NullDate /\ dayNumber(r.posting_date) <= dayNumber(r.document_date)

isDelayed(r) ==
  r.document_date # NullDate /\ dayNumber(r.posting_date) < dayNumber(r.document_date)

\* Array.prototype.sort with (a, b) => key(b) - key(a): stable, descending.
RECURSIVE sortByDelayedDays(_)
sortByDelayedDays(s) ==
  IF s = << >> THEN << >>
  ELSE LET i == CHOOSE i \in 1..Len(s) :
                  /\ \A j \in 1..Len(s) : s[j].delayedDays <= s[i].delayedDays
                  /\ \A j \in 1..(i - 1) : s[j].delayedDays < s[i].delayedDays
       IN  <<s[i]>> \o sortByDelayedDays(SubSeq(s, 1, i - 1) \o SubSeq(s, i + 1, Len(s)))

delayedTransactions ==
  LET late == SelectSeq(actualRows, isDelayed)
      out == [i \in 1..Len(late) |->
               [no_mat |-> late[i].no_mat,
                shop |-> deptLabel(late[i].dept),
                quantity |-> late[i].quantity,
                delayedDays |-> dayNumber(late[i].document_date)
                                - dayNumber(late[i].posting_date)]]
  IN  sortByDelayedDays(Array(out))

\* ------------------------------------------------------ over / under usage
\* The keys of a Map in insertion order: each key at its first set().
RECURSIVE insertionOrder(_)
insertionOrder(keys) ==
  IF keys = << >> THEN << >>
  ELSE LET front == insertionOrder(SubSeq(keys, 1, Len(keys) - 1))
           last == keys[Len(keys)]
       IN  IF last \in Range(front) THEN front ELSE Append(front, last)

\* Mutant of stableSortDesc: the comparator looks at k1 only.
RECURSIVE stableSortFirstKey(_)
stableSortFirstKey(s) ==
  IF s = << >> THEN << >>
  ELSE LET i == CHOOSE i \in 1..Len(s) :
                  /\ \A j \in 1..Len(s) : ~RLt(s[i].k1, s[j].k1)
                  /\ \A j \in 1..(i - 1) : RLt(s[j].k1, s[i].k1)
       IN  <<s[i].v>> \o stableSortFirstKey(SubSeq(s, 1, i - 1) \o SubSeq(s, i + 1, Len(s)))

\* Array.prototype.sort of records [k1, k2, v] with a comparator that puts
\* the larger k1 first and, on equal k1, the larger k2: stable.
RECURSIVE stableSortDesc(_)
stableSortDesc(s) ==
  IF s = << >> THEN << >>
  ELSE LET before(a, b) == RLt(b.k1, a.k1) \/ (a.k1 = b.k1 /\ RLt(b.k2, a.k2))
           i == CHOOSE i \in 1..Len(s) :
                  /\ \A j \in 1..Len(s) : ~before(s[j], s[i])
                  /\ \A j \in 1..(i - 1) : before(s[i], s[j])
       IN  <<s[i].v>> \o stableSortDesc(SubSeq(s, 1, i - 1) \o SubSeq(s, i + 1, Len(s)))

\* for (const [, v] of monthTotalsByDeptMat): the values in insertion order.
totalsValues ==
  LET v == totalsVisits
      order == insertionOrder(Array([i \in 1..Len(v) |-> v[i].key]))
      totals == monthTotalsByDeptMat
  IN  Array([i \in 1..Len(order) |-> totals[order[i]]])

\* Mutant of usageRows: the rows are left in the order of the totals.
usageRowsUnsorted(over) ==
  LET tv == totalsValues
      diffOf(v) == IF over THEN toFixed2(RSub(v.actualValue, v.forecastValue))
                   ELSE toFixed2(RSub(v.forecastValue, v.actualValue))
      rows == Array([i \in 1..Len(tv) |->
                [dept |-> tv[i].dept, no_mat |-> tv[i].no_mat, diff |-> diffOf(tv[i])]])
  IN  SelectSeq(rows, LAMBDA r : RLt(Zero, r.diff))

\* The rows pushed by overUsageRows (over) or underUsageRows, sorted.
usageRows(over) ==
  LET tv == totalsValues
      diffOf(v) == IF over THEN toFixed2(RSub(v.actualValue, v.forecastValue))
                   ELSE toFixed2(RSub(v.forecastValue, v.actualValue))
      rows == Array([i \in 1..Len(tv) |->
                [dept |-> tv[i].dept, no_mat |-> tv[i].no_mat, diff |-> diffOf(tv[i])]])
      kept == SelectSeq(rows, LAMBDA r : RLt(Zero, r.diff))
  IN  stableSortDesc(Array([i \in 1..Len(kept) |->
                             [k1 |-> kept[i].diff, k2 |-> Zero, v |-> kept[i]]]))

overUsageRows == usageRows(TRUE)

underUsageRows == usageRows(FALSE)

\* ------------------------------------------------------------ dept summary
NullPct == [null |-> TRUE, value |-> Zero]

\* Mutant of usagePctOf: the ratio is given for every non-zero forecast.
usagePctOfNonZero(a, f) ==
  IF f # Zero
  THEN [null |-> FALSE, value |-> toFixed2(RMul(RDiv(a, f), RInt(100)))]
  ELSE NullPct

\* f > 0 ? +((a / f) * 100).toFixed(2) : null
usagePctOf(a, f) ==
  IF RLt(Zero, f)
  THEN [null |-> FALSE, value |-> toFixed2(RMul(RDiv(a, f), RInt(100)))]
  ELSE NullPct

\* Mutant of deptSummary: one row per (department, material) key.
deptSummaryPerKey ==
  LET tv == totalsValues
      rows == Array([i \in 1..Len(tv) |->
                [dept |-> tv[i].dept, forecast |-> tv[i].forecastValue,
                 actual |-> tv[i].actualValue,
                 usagePct |-> usagePctOf(tv[i].actualValue, tv[i].forecastValue)]])
  IN  stableSortDesc(Array([i \in 1..Len(rows) |->
        [k1 |-> RSub(rows[i].actual, rows[i].forecast), k2 |-> Zero, v |-> rows[i]]]))

deptSummary ==
  LET tv == totalsValues
      depts == insertionOrder(Array([i \in 1..Len(tv) |-> tv[i].dept]))
      sumOf(d, field(_)) ==
        RSumSeq([i \in 1..Len(tv) |-> IF tv[i].dept = d THEN field(tv[i]) ELSE Zero])
      rows == Array([i \in 1..Len(depts) |->
                LET f == sumOf(depts[i], LAMBDA v : v.forecastValue)
                    a == sumOf(depts[i], LAMBDA v : v.actualValue)
                IN  [dept |-> depts[i], forecast |-> f, actual |-> a,
                     usagePct |-> usagePctOf(a, f)]])
  IN  stableSortDesc(Array([i \in 1..Len(rows) |->
        [k1 |-> RSub(rows[i].actual, rows[i].forecast), k2 |-> Zero, v |-> rows[i]]]))

\* ------------------------------------------------- continuous over / under
\* iso.slice(0, 7): the YYYY-MM of a date, as <<year, month>>.
ymKey(iso) == <<iso[1], iso[2]>>

\* Mutant of threeMonthKeys: the window ends a month early.
threeMonthKeysEarly ==
  << monthsBack(filters.year, filters.month, 3),
     monthsBack(filters.year, filters.month, 2),
     monthsBack(filters.year, filters.month, 1) >>

threeMonthKeys ==
  << monthsBack(filters.year, filters.month, 2),
     monthsBack(filters.year, filters.month, 1),
     monthsBack(filters.year, filters.month, 0) >>

\* The YYYY-MM text of a key: one token, which holds no "|".
ymText(ym) == << ToString(ym) >>

Bar == <<"|">>

\* `${ym}|${dept}|${no_mat}`
windowKey(ym, dept, no_mat) == ymText(ym) \o Bar \o dept \o Bar \o no_mat

\* String.prototype.split("|")
RECURSIVE split(_)
split(s) ==
  IF \E i \in 1..Len(s) : s[i] = "|"
  THEN LET i == CHOOSE i \in 1..Len(s) : s[i] = "|" /\ \A j \in 1..(i - 1) : s[j] # "|"
       IN  <<SubSeq(s, 1, i - 1)>> \o split(SubSeq(s, i + 1, Len(s)))
  ELSE <<s>>

\* The rows a loop adds to fMap / aMap, in order, with key and value.
forecast3Visits ==
  LET inWindow(r) == r.month # NullDate /\ ymKey(r.month) \in Range(threeMonthKeys)
      kept == SelectSeq(forecast3m, inWindow)
  IN  Array([i \in 1..Len(kept) |->
        [key |-> windowKey(ymKey(kept[i].month), deptLabel(kept[i].shop), kept[i].no_mat),
         value |-> RMul(RInt(kept[i].quantity), vpu(kept[i].no_mat))]])

actual3Visits ==
  LET inWindow(r) == ymKey(r.posting_date) \in Range(threeMonthKeys)
      kept == SelectSeq(actual3m, inWindow)
  IN  Array([i \in 1..Len(kept) |->
        [key |-> windowKey(ymKey(kept[i].posting_date), deptLabel(kept[i].dept),
                           kept[i].no_mat),
         value |-> RMul(RInt(kept[i].quantity), vpu(kept[i].no_mat))]])

\* map.get(key) ?? 0 of the Map the visits build.
windowGet(visits, key) ==
  RSumSeq([i \in 1..Len(visits) |-> IF visits[i].key = key THEN visits[i].value ELSE Zero])

windowKeys(visits) == insertionOrder(Array([i \in 1..Len(visits) |-> visits[i].key]))

\* combos: one entry per `${dept}|${no}` split off the keys of fMap, then aMap.
combos ==
  LET keys == windowKeys(forecast3Visits) \o windowKeys(actual3Visits)
      parts == Array([i \in 1..Len(keys) |-> split(keys[i])])
      known == {i \in 1..Len(keys) :
                 parts[i][1] \in {ymText(threeMonthKeys[k]) : k \in 1..3}}
      pushed == SelectSeq(Array([i \in 1..Len(keys) |->
                  [ok |-> i \in known,
                   key |-> parts[i][2] \o Bar \o parts[i][3],
                   dept |-> parts[i][2], no_mat |-> parts[i][3]]]),
                  LAMBDA c : c.ok)
      order == insertionOrder(Array([i \in 1..Len(pushed) |-> pushed[i].key]))
  IN  Array([i \in 1..Len(order) |->
        LET last == CHOOSE j \in 1..Len(pushed) :
                      /\ pushed[j].key = order[i]
                      /\ \A k \in (j + 1)..Len(pushed) : pushed[k].key # order[i]
        IN  [dept |-> pushed[last].dept, no_mat |-> pushed[last].no_mat]])

\* Mutant of diffRecs: the monthly deltas are kept unrounded.
diffRecsUnrounded ==
  LET fv == forecast3Visits
      av == actual3Visits
      cs == combos
      keys == threeMonthKeys
      A(c, i) == windowGet(av, windowKey(keys[i], c.dept, c.no_mat))
      F(c, i) == windowGet(fv, windowKey(keys[i], c.dept, c.no_mat))
  IN  Array([n \in 1..Len(cs) |->
        LET c == cs[n]
            sA == RAdd(RAdd(A(c, 1), A(c, 2)), A(c, 3))
            sF == RAdd(RAdd(F(c, 1), F(c, 2)), F(c, 3))
        IN  [dept |-> c.dept, no_mat |-> c.no_mat,
             diff1 |-> RSub(A(c, 1), F(c, 1)),
             diff2 |-> RSub(A(c, 2), F(c, 2)),
             diff3 |-> RSub(A(c, 3), F(c, 3)),
             pct3m |-> usagePctOf(sA, sF)]])

\* The DiffRec of every combo, in the order of combos.
diffRecs ==
  LET fv == forecast3Visits
      av == actual3Visits
      cs == combos
      keys == threeMonthKeys
      A(c, i) == windowGet(av, windowKey(keys[i], c.dept, c.no_mat))
      F(c, i) == windowGet(fv, windowKey(keys[i], c.dept, c.no_mat))
  IN  Array([n \in 1..Len(cs) |->
        LET c == cs[n]
            sA == RAdd(RAdd(A(c, 1), A(c, 2)), A(c, 3))
            sF == RAdd(RAdd(F(c, 1), F(c, 2)), F(c, 3))
        IN  [dept |-> c.dept, no_mat |-> c.no_mat,
             diff1 |-> toFixed2(RSub(A(c, 1), F(c, 1))),
             diff2 |-> toFixed2(RSub(A(c, 2), F(c, 2))),
             diff3 |-> toFixed2(RSub(A(c, 3), F(c, 3))),
             pct3m |-> usagePctOf(sA, sF)]])

\* pct3m ?? -1
pctOrMinusOne(p) == IF p.null THEN RInt(-1) ELSE p.value

continuousOver ==
  LET allOver(r) == RLt(Zero, r.diff1) /\ RLt(Zero, r.diff2) /\ RLt(Zero, r.diff3)
      over == SelectSeq(diffRecs, allOver)
  IN  stableSortDesc(Array([i \in 1..Len(over) |->
        [k1 |-> over[i].diff3, k2 |-> pctOrMinusOne(over[i].pct3m), v |-> over[i]]]))

continuousUnder ==
  LET allUnder(r) == RLt(r.diff1, Zero) /\ RLt(r.diff2, Zero) /\ RLt(r.diff3, Zero)
      under == SelectSeq(diffRecs, allUnder)
  IN  stableSortDesc(Array([i \in 1..Len(under) |->
        [k1 |-> <<Abs(under[i].diff3[1]), under[i].diff3[2]>>,
         k2 |-> RSub(Zero, pctOrMinusOne(under[i].pct3m)), v |-> under[i]]]))

\* ------------------------------------------------------------ effect runs
\* One record per effect run whose Promise has not resolved: the effect,
\* the (year, month) its closure captured, and its cancel flag.
NoPeriod == [year |-> 0, month |-> 0]
Period(f) == [year |-> f.year, month |-> f.month]

Request(kind, per) == [kind |-> kind, year |-> per.year, month |-> per.month, cancel |-> FALSE]

MountRequests(per) ==
  { Request("dept", NoPeriod), Request("ref", NoPeriod),
    Request("cal", per), Request("rows", per), Request("rows3", per) }

\* Mutant of Cleanup: the superseded runs keep running uncancelled.
CleanupNothing(reqs) == reqs

\* The cleanup of the runs that depend on [filters.year, filters.month].
Cleanup(reqs) ==
  { IF r.kind \in {"cal", "rows", "rows3"} THEN [r EXCEPT !.cancel = TRUE] ELSE r : r \in reqs }

\* Mutant of cancelled: the response is applied whatever the flag says.
cancelledNever(r) == FALSE

\* if (cancel) return;
cancelled(r) == r.cancel

Stale(reqs) == {r \in reqs : r.cancel}

\* setFilters with a new (year, month): the three effects keyed on it are
\* cleaned up and run again.
ChangePeriod(per) ==
  /\ per # Period(filters)
  /\ Cardinality(Stale(Cleanup(inflight))) <= MaxStale
  /\ filters' = [filters EXCEPT !.year = per.year, !.month = per.month]
  /\ inflight' = Cleanup(inflight)
                  \cup {Request("cal", per), Request("rows", per), Request("rows3", per)}
  /\ UNCHANGED <<imp, db, deptOptions, masterMap, shopMap, cal1, cal2,
                 actualRows, forecastRows, actual3m, forecast3m, hist>>

SetMonth(m) == ChangePeriod([year |-> filters.year, month |-> m])

SetYear(y) == ChangePeriod([year |-> y, month |-> filters.month])

ThisMonth == ChangePeriod(Now)

SetDeptMode(mode) ==
  /\ mode # filters.deptMode
  /\ filters' = [filters EXCEPT !.deptMode = mode]
  /\ UNCHANGED <<imp, db, deptOptions, masterMap, shopMap, cal1, cal2,
                 actualRows, forecastRows, actual3m, forecast3m, inflight, hist>>

\* The combobox is rendered in list mode and offers deptOptions.
SetDeptSelected(v) ==
  /\ filters.deptMode = "list"
  /\ v \in deptOptions
  /\ v # filters.deptSelected
  /\ filters' = [filters EXCEPT !.deptSelected = v]
  /\ UNCHANGED <<imp, db, deptOptions, masterMap, shopMap, cal1, cal2,
                 actualRows, forecastRows, actual3m, forecast3m, inflight, hist>>

SetMaterial(opt) ==
  /\ opt # filters.material
  /\ filters' = [filters EXCEPT !.material = opt]
  /\ UNCHANGED <<imp, db, deptOptions, masterMap, shopMap, cal1, cal2,
                 actualRows, forecastRows, actual3m, forecast3m, inflight, hist>>

Errors(results) == {t \in Tables : t \in DOMAIN results /\ results[t].error}

RespondDept(r) ==
  /\ r \in inflight /\ r.kind = "dept"
  /\ inflight' = inflight \ {r}
  /\ LET withDept(x) == x.dept # Null
         res == Query("shop", SelectSeq(db.shop, withDept))
     IN  /\ deptOptions' = IF ~res.error /\ ~cancelled(r)
                           THEN buildDeptOptions(res.data) ELSE deptOptions
         /\ hist' = [hist EXCEPT !.deptDone = TRUE,
                                 !.failed = @ \cup (IF res.error THEN {"shop"} ELSE {})]
  /\ UNCHANGED <<imp, db, filters, masterMap, shopMap, cal1, cal2, actualRows, forecastRows,
                 actual3m, forecast3m>>

RespondRef(r) ==
  /\ r \in inflight /\ r.kind = "ref"
  /\ inflight' = inflight \ {r}
  /\ LET m == Query("master", db.master)
         s == Query("shop", db.shop)
     IN  /\ hist' = [hist EXCEPT !.refDone = TRUE,
                       !.failed = @ \cup Errors([master |-> m, shop |-> s])]
         /\ IF cancelled(r)
            THEN UNCHANGED <<masterMap, shopMap>>
            ELSE /\ masterMap' = buildMasterMap(OrEmpty(m))
                 /\ shopMap' = buildShopMap(OrEmpty(s))
  /\ UNCHANGED <<imp, db, filters, deptOptions, cal1, cal2, actualRows, forecastRows,
                 actual3m, forecast3m>>

RespondCal(r) ==
  /\ r \in inflight /\ r.kind = "cal"
  /\ inflight' = inflight \ {r}
  /\ LET c1 == selectCalendar("calender1", db.calender1, r.year, r.month)
         c2 == selectCalendar("calender2", db.calender2, r.year, r.month)
     IN  IF cancelled(r)
         THEN /\ UNCHANGED <<cal1, cal2>>
              /\ hist' = [hist EXCEPT !.lateDiscard =
                            @ \/ (hist.calFor = Period(filters) /\ r \in Stale(inflight))]
         ELSE /\ cal1' = buildCalMap(OrEmpty(c1), r.year, r.month)
              /\ cal2' = buildCalMap(OrEmpty(c2), r.year, r.month)
              /\ hist' = [hist EXCEPT !.calFor = [year |-> r.year, month |-> r.month],
                            !.failed = @ \cup Errors([calender1 |-> c1, calender2 |-> c2])]
  /\ UNCHANGED <<imp, db, filters, deptOptions, masterMap, shopMap, actualRows, forecastRows,
                 actual3m, forecast3m>>

RespondRows(r) ==
  /\ r \in inflight /\ r.kind = "rows"
  /\ inflight' = inflight \ {r}
  /\ LET a == selectActual(r.year, r.month)
         f == selectForecast(r.year, r.month)
     IN  IF cancelled(r)
         THEN /\ UNCHANGED <<actualRows, forecastRows>>
              /\ hist' = [hist EXCEPT !.lateDiscard =
                            @ \/ (hist.rowsFor = Period(filters) /\ r \in Stale(inflight))]
         ELSE /\ actualRows' = mapActual(OrEmpty(a))
              /\ forecastRows' = mapForecast(OrEmpty(f))
              /\ hist' = [hist EXCEPT !.rowsFor = [year |-> r.year, month |-> r.month],
                            !.failed = @ \cup Errors([actual |-> a, forecast |-> f])]
  /\ UNCHANGED <<imp, db, filters, deptOptions, masterMap, shopMap, cal1, cal2,
                 actual3m, forecast3m>>

\* The last-three-months effect: its two reads resolve together.
RespondRows3(r) ==
  /\ r \in inflight /\ r.kind = "rows3"
  /\ inflight' = inflight \ {r}
  /\ LET a3 == select3Actual(r.year, r.month)
         f3 == select3Forecast(r.year, r.month)
     IN  IF cancelled(r)
         THEN UNCHANGED <<actual3m, forecast3m, hist>>
         ELSE /\ actual3m' = mapActual(OrEmpty(a3))
              /\ forecast3m' = mapForecast(OrEmpty(f3))
              /\ hist' = [hist EXCEPT !.rows3For = [year |-> r.year, month |-> r.month],
                            !.failed = @ \cup Errors([actual |-> a3, forecast |-> f3])]
  /\ UNCHANGED <<imp, db, filters, deptOptions, masterMap, shopMap, cal1, cal2,
                 actualRows, forecastRows>>

DeptModes == {"all", "list", "unassigned"}
MaterialOpts == {"all", "Direct Material", "Indirect Material", "Unassigned"}
RequestSet ==
  [kind : {"dept", "ref", "cal", "rows", "rows3"}, year : Years \cup {0},
   month : Months \cup {0}, cancel : BOOLEAN]

\* ------------------------------------------------------------ store contents
MasterRow(no, price, qty, cat) ==
  [no_mat |-> no, Price |-> price, qty |-> qty, category |-> cat]
ShopRow(dept, loc) == [dept |-> dept, loc |-> loc]
CalRow(date, wt, ot) == [date |-> date, working_time |-> wt, over_time |-> ot]
ActualRow(no, dept, qty, post, doc) ==
  [no_mat |-> no, dept |-> dept, quantity |-> qty, posting_date |-> post,
   document_date |-> doc]
ForecastRow(no, shop, usage, month) ==
  [no_mat |-> no, shop |-> shop, usage |-> usage, month |-> month]

Prev == [year |-> 2024, month |-> 12]
Day(per, d) == <<per.year, per.month, d>>

BaseDB ==
  [master |-> << MasterRow(M1, Num(200), Num(20), CatDM),
                 MasterRow(M2, Num(7), Num(0), CatIM) >>,
   shop |-> << ShopRow(DeptA, Num(1)), ShopRow(<<"B", " ">>, Num(2)) >>,
   calender1 |-> << CalRow(Day(Now, 1), Num(8), Num(0)),
                    CalRow(Day(Now, 2), Num(6), Num(2)),
                    CalRow(Day(Prev, 1), Num(8), Num(0)) >>,
   calender2 |-> << CalRow(Day(Now, 2), Num(8), NullNum) >>,
   actual |-> << ActualRow(M1, DeptA, Num(3), Day(Now, 1), Day(Now, 2)),
                 ActualRow(M2, DeptZ, Num(4), Day(Now, 2), NullDate),
                 ActualRow(M1, DeptB, Num(1), Day(Prev, 1), Day(Prev, 1)) >>,
   forecast |-> << ForecastRow(M1, DeptA, Num(100), Day(Now, 1)),
                   ForecastRow(M1, DeptB, Num(50), Day(Prev, 1)) >>,
   down |-> {}]

\* The store, with every read succeeding or the reads of one table failing.
DownSets == {{}, {"master"}, {"forecast"}}
SpecDBs == {[BaseDB EXCEPT !.down = d] : d \in DownSets}

\* ------------------------------------------------- the Actual import page
\* The page src/unnamed/part_001 keeps the prepared rows (preview) and the
\* busy flag in useState and writes the table actual of the store.  imp
\* holds them together with the position of the running importNow call:
\*   preview  the prepared rows shown on the page
\*   busy     useState<boolean>
\*   pc       "idle" before the first call, "purge", "insert" and "refresh"
\*            at the awaits of the running call, "done" after a call
\*   rows     the preview the running call closed over
\*   months   the months the running call has still to purge
\*   chunks   the groups the running call has still to insert
\*   log      history: the store calls of the last importNow call, in order
\*   strict   whether the posting_date column of the store refuses a text
\*            that is no date (the table is created outside the repository)
\*   okRuns   history: the successful calls in succession with one preview
\*   snap     history: table actual at the end of the first of them
\*   calls    history: the importNow calls made

\* chunk(arr, size = 500): the groups are ChunkSize rows long here.
ChunkSize == 2

\* The importNow calls of one behaviour.
MaxImports == 2

\* What toYmd returns for a cell that holds a text it cannot read as a date:
\* the text itself.
NotADate == <<0, 0, 1>>

\* /^\d{4}-\d{2}-\d{2}$/.test(base); NullDate stands for "" as well.
isYmd(d) == d # NullDate /\ d # NotADate

\* r.posting_date || r.document_date
baseDate(r) == IF r.posting_date # NullDate THEN r.posting_date ELSE r.document_date

RECURSIVE importMonthsFrom(_, _)
importMonthsFrom(rows, seen) ==
  IF rows = << >> THEN seen
  ELSE LET base == baseDate(Head(rows))
           ym == <<base[1], base[2]>>
       IN  IF ~isYmd(base) \/ ym \in Range(seen)
           THEN importMonthsFrom(Tail(rows), seen)
           ELSE importMonthsFrom(Tail(rows), Append(seen, ym))

\* A variant that reads the month from the posting date alone.
importMonthsPostingOnly(rows) ==
  importMonthsFrom([i \in 1..Len(rows) |->
                      [rows[i] EXCEPT !.document_date = NullDate]], << >>)

\* The Set of months of importNow, in insertion order.
importMonths(rows) == importMonthsFrom(rows, << >>)

RECURSIVE chunk(_, _)
chunk(arr, size) ==
  IF arr = << >> THEN << >>
  ELSE IF Len(arr) <= size THEN << arr >>
  ELSE << SubSeq(arr, 1, size) >> \o chunk(SubSeq(arr, size + 1, Len(arr)), size)

\* .gte("posting_date", start).lt("posting_date", next): a row without a
\* date in posting_date is in no range.
inMonth(r, ym) ==
  /\ isYmd(r.posting_date)
  /\ DateLe(<<ym[1], ym[2], 1>>, r.posting_date)
  /\ DateLt(r.posting_date, nextMonthStart(ym[1], ym[2]))

\* supabase.from("actual").delete() of one month
purged(table, ym) == SelectSeq(table, LAMBDA r : ~inMonth(r, ym))

\* Whether the store can take the group: a strict column refuses a row
\* whose posting_date or document_date is a text that is no date ("" is
\* such a text).
accepts(strict, group) ==
  \/ ~strict
  \/ \A i \in 1..Len(group) :
       /\ isYmd(group[i].posting_date)
       /\ isYmd(group[i].document_date)

ImportIdle(preview, strict) ==
  [preview |-> preview, busy |-> FALSE, pc |-> "idle", rows |-> << >>,
   months |-> << >>, chunks |-> << >>, log |-> << >>, strict |-> strict,
   okRuns |-> 0, snap |-> << >>, calls |-> 0]

\* A variant of the error path that logs the error and goes on with the
\* next call.
thrownIgnored(i, entry) ==
  [i EXCEPT !.log = Append(@, entry),
            !.months = IF @ = << >> THEN @ ELSE Tail(@),
            !.chunks = IF i.pc = "purge" /\ Len(i.months) = 1
                       THEN chunk(i.rows, ChunkSize)
                       ELSE IF i.pc = "insert" THEN Tail(@) ELSE @,
            !.pc = IF i.pc = "purge" /\ Len(i.months) > 1 THEN "purge"
                   ELSE IF i.pc = "insert" /\ Len(i.chunks) = 1 THEN "refresh"
                   ELSE "insert"]

\* throw, catch and finally: the call ends and busy is false.
thrown(i, entry) ==
  [i EXCEPT !.log = Append(@, entry), !.pc = "done", !.busy = FALSE,
            !.months = << >>, !.chunks = << >>, !.okRuns = 0]

InitFilters ==
  [year |-> Now.year, month |-> Now.month, deptMode |-> "all",
   deptSelected |-> Null, material |-> "all"]

Init ==
  /\ db \in SpecDBs
  /\ filters = InitFilters
  /\ deptOptions = {}
  /\ masterMap = EmptyMap
  /\ shopMap = EmptyMap
  /\ cal1 = EmptyMap
  /\ cal2 = EmptyMap
  /\ actualRows = << >>
  /\ forecastRows = << >>
  /\ actual3m = << >>
  /\ forecast3m = << >>
  /\ inflight = MountRequests(Now)
  /\ hist = [calFor |-> NoPeriod, rowsFor |-> NoPeriod, rows3For |-> NoPeriod,
             refDone |-> FALSE,
             deptDone |-> FALSE, failed |-> {}, lateDiscard |-> FALSE]
  /\ imp = ImportIdle(<< >>, TRUE)

Next ==
  \/ \E m \in Months : SetMonth(m)
  \/ \E y \in Years : SetYear(y)
  \/ ThisMonth
  \/ \E mode \in DeptModes : SetDeptMode(mode)
  \/ \E v \in deptOptions : SetDeptSelected(v)
  \/ \E opt \in MaterialOpts : SetMaterial(opt)
  \/ \E r \in inflight : RespondDept(r)
  \/ \E r \in inflight : RespondRef(r)
  \/ \E r \in inflight : RespondCal(r)
  \/ \E r \in inflight : RespondRows(r)
  \/ \E r \in inflight : RespondRows3(r)

Spec == Init /\ [][Next]_vars

\* --------------------------------------------- the loaded page, as a start
\* The state once every read of the mounted page has resolved, for a store
\* drawn from dbs: the start of the specifications that exercise the
\* memoised computations under filter changes.
Loaded(dbs) ==
  /\ db \in dbs
  /\ filters = InitFilters
  /\ deptOptions = buildDeptOptions(SelectSeq(db.shop, LAMBDA x : x.dept # Null))
  /\ masterMap = buildMasterMap(OrEmpty(Query("master", db.master)))
  /\ shopMap = buildShopMap(OrEmpty(Query("shop", db.shop)))
  /\ cal1 = buildCalMap(OrEmpty(selectCalendar("calender1", db.calender1,
                                                 Now.year, Now.month)),
                        Now.year, Now.month)
  /\ cal2 = buildCalMap(OrEmpty(selectCalendar("calender2", db.calender2,
                                                 Now.year, Now.month)),
                        Now.year, Now.month)
  /\ actualRows = mapActual(OrEmpty(selectActual(Now.year, Now.month)))
  /\ forecastRows = mapForecast(OrEmpty(selectForecast(Now.year, Now.month)))
  /\ actual3m = mapActual(OrEmpty(select3Actual(Now.year, Now.month)))
  /\ forecast3m = mapForecast(OrEmpty(select3Forecast(Now.year, Now.month)))
  /\ inflight = {}
  /\ hist = [calFor |-> Now, rowsFor |-> Now, rows3For |-> Now, refDone |-> TRUE,
             deptDone |-> TRUE, failed |-> {}, lateDiscard |-> FALSE]

InitLoaded(dbs) == Loaded(dbs) /\ imp = ImportIdle(<< >>, TRUE)

SeqsUpTo(S, n) == UNION {[1..k -> S] : k \in 0..n}

\* A calendar table of the month: per day no row, or a row with a load.
RECURSIVE CalRowsFrom(_, _, _)
CalRowsFrom(per, f, d) ==
  IF d > NumDays THEN << >>
  ELSE (IF f[d].present
        THEN << CalRow(Day(per, d), f[d].wt, f[d].ot) >> ELSE << >>)
       \o CalRowsFrom(per, f, d + 1)

NoRow == [present |-> FALSE, wt |-> NullNum, ot |-> NullNum]
Load(wt, ot) == [present |-> TRUE, wt |-> wt, ot |-> ot]

CalTables(per, loads) ==
  {CalRowsFrom(per, f, 1) : f \in [1..NumDays -> loads \cup {NoRow}]}

\* Stores for the redistribution: calendars and forecast lines vary.
ForecastLines ==
  { ForecastRow(M1, DeptA, Num(100), Day(Now, 1)),
    ForecastRow(M1, DeptB, Num(30), Day(Now, 1)),
    ForecastRow(M2, DeptB, Num(-5), Day(Now, 1)),
    ForecastRow(<<"M", "3">>, DeptA, Num(7), Day(Now, 1)) }

RedistributeDBs ==
  { [BaseDB EXCEPT !.master = << MasterRow(M1, Num(200), Num(20), CatDM),
                                 MasterRow(M2, Num(7), Num(3), CatIM) >>,
                   !.calender1 = c1, !.calender2 = c2,
                   !.actual = << >>, !.forecast = f]
    : c1 \in CalTables(Now, {Load(Num(0), Num(0)), Load(Num(8), Num(0)),
                             Load(Num(3), Num(1))}),
      c2 \in CalTables(Now, {Load(Num(8), NullNum)}),
      f \in SeqsUpTo(ForecastLines, MaxRows) }

InitRedistribute == InitLoaded(RedistributeDBs)

NextRedistribute == \E opt \in MaterialOpts : SetMaterial(opt)

SpecRedistribute == InitRedistribute /\ [][NextRedistribute]_vars

\* Stores for the filters: the departments and materials of the rows vary.
ActualLines ==
  { ActualRow(no, dept, Num(3), Day(Now, 1), doc)
    : no \in {M1, <<"M", "3">>},
      dept \in {Null, DeptA, <<" ", "A">>, DeptZ},
      doc \in {Day(Now, 2)} }
  \cup
  { ActualRow(M2, Empty, Num(2), Day(Now, 2), NullDate),
    ActualRow(M2, DeptB, Num(2), Day(Now, 2), Day(Now, 1)) }

ShopLines ==
  { ForecastRow(no, shop, Num(10), Day(Now, 1))
    : no \in {M1, M2}, shop \in {Null, <<" ">>, <<"A", " ">>, DeptZ} }

FilterDBs ==
  { [BaseDB EXCEPT !.actual = a, !.forecast = f]
    : a \in SeqsUpTo(ActualLines, MaxRows), f \in SeqsUpTo(ShopLines, MaxRows) }

InitFilter ==
  /\ InitLoaded(FilterDBs)
  /\ Len(db.actual) + Len(db.forecast) <= MaxRows

NextFilter ==
  \/ \E mode \in DeptModes : SetDeptMode(mode)
  \/ \E v \in deptOptions : SetDeptSelected(v)
  \/ \E opt \in MaterialOpts : SetMaterial(opt)

SpecFilter == InitFilter /\ [][NextFilter]_vars

\* Stores for the categories: the category text of the two master rows
\* varies over spellings of the direct class, of the indirect class and of
\* neither; material M3 has no master row.
M3 == <<"M", "3">>

DirectSpellings ==
  { <<"d", "i", "r", "e", "c", "t">>,
    <<"D", "i", "r", "e", "c", "t">>,
    <<" ", "D", "I", "R", "E", "C", "T", " ">>,
    <<"d", "m">>,
    <<"D", "M">>,
    <<"D", "i", "r", "e", "c", "t", " ", "M", "a", "t", "e", "r", "i", "a", "l">>,
    <<"d", "i", "r", "e", "c", "t", " ", "m", "a", "t", "e", "r", "i", "a", "l">> }

IndirectSpellings ==
  { <<"i", "n", "d", "i", "r", "e", "c", "t">>,
    <<"I", "n", "d", "i", "r", "e", "c", "t", " ">>,
    <<"i", "m">>,
    <<"I", "M">>,
    <<"i", "m", " ">>,
    <<"I", "N", "D", "I", "R", "E", "C", "T", " ", "M", "A", "T", "E", "R", "I", "A", "L">> }

OtherSpellings ==
  { Null,
    Empty,
    <<" ">>,
    <<"d", "i", "r", "e", "c", "t", "s">>,
    <<"d", " ", "m">>,
    <<"r", "a", "w">>,
    <<"u", "n", "a", "s", "s", "i", "g", "n", "e", "d">>,
    <<"d", "i", "r", "e", "c", "t", " ", " ", "m", "a", "t", "e", "r", "i", "a", "l">>,
    <<"i", "n", " ", "d", "i", "r", "e", "c", "t">> }

CategoryTexts == DirectSpellings \cup IndirectSpellings \cup OtherSpellings

CategoryDBs ==
  { [BaseDB EXCEPT
       !.master = << MasterRow(M1, Num(200), Num(20), c1),
                     MasterRow(M2, Num(7), Num(3), c2) >>,
       !.actual = << ActualRow(M1, DeptA, Num(3), Day(Now, 1), NullDate),
                     ActualRow(M2, DeptA, Num(4), Day(Now, 2), NullDate),
                     ActualRow(M3, DeptB, Num(5), Day(Now, 2), NullDate) >>,
       !.forecast = << ForecastRow(M3, DeptA, Num(9), Day(Now, 1)),
                       ForecastRow(M2, DeptB, Num(8), Day(Now, 1)),
                       ForecastRow(M1, DeptA, Num(7), Day(Now, 1)) >>]
    : c1 \in CategoryTexts, c2 \in CategoryTexts }

InitCategory == InitLoaded(CategoryDBs)

NextCategory == \E opt \in MaterialOpts : SetMaterial(opt)

SpecCategory == InitCategory /\ [][NextCategory]_vars

\* Stores for the delays: the posting and document dates of the rows vary.
Following == [year |-> 2025, month |-> 2]

DelayLines ==
  { ActualRow(M1, dept, Num(3), Day(Now, post), doc)
    : dept \in {DeptA, Null},
      post \in 1..NumDays,
      doc \in {NullDate, Day(Prev, NumDays), Day(Now, 1), Day(Now, NumDays),
               Day(Following, 1), Day(Following, NumDays)} }

DelayDBs == { [BaseDB EXCEPT !.actual = a] : a \in SeqsUpTo(DelayLines, MaxRows) }

InitDelay == InitLoaded(DelayDBs)

NextDelay ==
  \/ \E mode \in DeptModes : SetDeptMode(mode)
  \/ \E opt \in MaterialOpts : SetMaterial(opt)

SpecDelay == InitDelay /\ [][NextDelay]_vars

\* Stores for the variances: per month of the three-month window and per
\* (department, material) the actual and forecast quantities vary. M1 is
\* worth 10 a unit, M2 1/300 a unit, M3 has no master row.
WindowMonths ==
  << [year |-> 2024, month |-> 11], Prev, Now >>

\* The rows of one key in one month: at most one actual and one forecast
\* row, a and f holding the quantity if the row exists.
Usage(a, f) == [a |-> a, f |-> f]

actualOf(per, dept, no, u) ==
  [i \in 1..Len(u.a) |-> ActualRow(no, dept, Num(u.a[i]), Day(per, 1), NullDate)]

forecastOf(per, dept, no, u) ==
  [i \in 1..Len(u.f) |-> ForecastRow(no, dept, Num(u.f[i]), Day(per, 1))]

UsagesM1 ==
  { Usage(<<3>>, <<2>>), Usage(<<2>>, <<3>>), Usage(<<2>>, <<2>>), Usage(<< >>, <<-1>>) }
UsagesM2Before == { Usage(<<1>>, << >>), Usage(<<300>>, << >>) }
UsagesM2 ==
  { Usage(<<1>>, << >>), Usage(<<300>>, << >>), Usage(<< >>, <<600>>), Usage(<< >>, << >>) }
UsagesM3 == { Usage(<<5>>, <<4>>), Usage(<< >>, << >>) }

AnomalyDBs ==
  { [BaseDB EXCEPT
       !.master = << MasterRow(M1, Num(200), Num(20), CatDM),
                     MasterRow(M2, Num(1), Num(300), CatIM) >>,
       !.actual =
         actualOf(WindowMonths[1], DeptA, M2, u2a) \o actualOf(WindowMonths[1], DeptA, M1, u1[1])
         \o actualOf(WindowMonths[1], DeptB, M3, u3)
         \o actualOf(WindowMonths[2], DeptA, M2, u2b) \o actualOf(WindowMonths[2], DeptA, M1, u1[2])
         \o actualOf(WindowMonths[2], DeptB, M3, u3)
         \o actualOf(WindowMonths[3], DeptA, M2, u2c) \o actualOf(WindowMonths[3], DeptA, M1, u1[3])
         \o actualOf(WindowMonths[3], DeptB, M3, u3),
       !.forecast =
         forecastOf(WindowMonths[1], DeptA, M2, u2a) \o forecastOf(WindowMonths[1], DeptA, M1, u1[1])
         \o forecastOf(WindowMonths[1], DeptB, M3, u3)
         \o forecastOf(WindowMonths[2], DeptA, M2, u2b) \o forecastOf(WindowMonths[2], DeptA, M1, u1[2])
         \o forecastOf(WindowMonths[2], DeptB, M3, u3)
         \o forecastOf(WindowMonths[3], DeptA, M2, u2c) \o forecastOf(WindowMonths[3], DeptA, M1, u1[3])
         \o forecastOf(WindowMonths[3], DeptB, M3, u3)]
    : u1 \in [1..3 -> UsagesM1], u2a \in UsagesM2Before, u2b \in UsagesM2Before,
      u2c \in UsagesM2, u3 \in UsagesM3 }

InitAnomaly == InitLoaded(AnomalyDBs)

NextAnomaly == \E opt \in MaterialOpts : SetMaterial(opt)

SpecAnomaly == InitAnomaly /\ [][NextAnomaly]_vars

\* Stores for the divisions: the pack quantity of the master rows and the
\* calendar tables vary; a calendar is empty, without load, with load, or
\* holds a day twice so that the loads kept for the month sum to 0.
DivisionQuantities == {Num(0), Num(20), NullNum, NaNNum, Num(-4)}

DivisionCalendars ==
  { << >>,
    << CalRow(Day(Now, 1), Num(0), Num(0)), CalRow(Day(Now, 2), Num(0), NullNum) >>,
    << CalRow(Day(Now, 1), Num(8), Num(0)) >>,
    << CalRow(Day(Now, 1), Num(5), Num(0)), CalRow(Day(Now, 1), Num(3), Num(0)),
       CalRow(Day(Now, 2), Num(-3), Num(0)) >> }

DivisionDBs ==
  { [BaseDB EXCEPT
       !.master = << MasterRow(M1, Num(200), q1, CatDM),
                     MasterRow(M2, Num(7), q2, CatIM) >>,
       !.calender1 = c1, !.calender2 = c2,
       !.actual = << ActualRow(M1, DeptA, Num(3), Day(Now, 1), NullDate),
                     ActualRow(M3, DeptB, Num(5), Day(Now, 2), NullDate) >>,
       !.forecast = << ForecastRow(M1, DeptA, Num(100), Day(Now, 1)),
                       ForecastRow(M2, DeptB, Num(30), Day(Now, 1)),
                       ForecastRow(M3, DeptA, Num(7), Day(Now, 1)) >>]
    : q1 \in DivisionQuantities, q2 \in {Num(0), Num(3)},
      c1 \in DivisionCalendars, c2 \in DivisionCalendars }

InitDivision == InitLoaded(DivisionDBs)

NextDivision ==
  \/ \E mode \in DeptModes : SetDeptMode(mode)
  \/ \E opt \in MaterialOpts : SetMaterial(opt)

SpecDivision == InitDivision /\ [][NextDivision]_vars

\* Stores for the daily series: the transactions vary in material, day and
\* quantity, the forecast lines in material and department. M1 is worth 10
\* a unit, M2 7/3 a unit, M3 has no master row.
DailyLines ==
  { ActualRow(no, DeptA, Num(q), Day(Now, d), NullDate)
    : no \in {M1, M2, M3}, q \in {4, 1}, d \in 1..NumDays }

DailyForecasts ==
  { << >>,
    << ForecastRow(M1, DeptA, Num(100), Day(Now, 1)) >>,
    << ForecastRow(M2, DeptB, Num(4), Day(Now, 1)),
       ForecastRow(M2, DeptA, Num(1), Day(Now, 1)) >>,
    << ForecastRow(M3, DeptA, Num(7), Day(Now, 1)),
       ForecastRow(M1, DeptB, Num(30), Day(Now, 1)) >> }

DailyDBs ==
  { [BaseDB EXCEPT
       !.master = << MasterRow(M1, Num(200), Num(20), CatDM),
                     MasterRow(M2, Num(7), Num(3), CatIM) >>,
       !.actual = a, !.forecast = f]
    : a \in SeqsUpTo(DailyLines, MaxRows), f \in DailyForecasts }

InitDaily == InitLoaded(DailyDBs)

NextDaily ==
  \/ \E mode \in DeptModes : SetDeptMode(mode)
  \/ \E opt \in MaterialOpts : SetMaterial(opt)

SpecDaily == InitDaily /\ [][NextDaily]_vars

\* Stores for the order of the variances: material M1 (10 a unit) in three
\* departments over the three-month window. Departments A and B vary in
\* the usage of the two preceding months and of the current month, so that
\* equal current-month deltas meet different three-month ratios, a ratio
\* being null for a key without forecast; department Z is 20, 20, 10 over.
OrderUsages ==
  { Usage(<<3>>, <<2>>), Usage(<<4>>, <<2>>), Usage(<<2>>, <<3>>),
    Usage(<<1>>, << >>), Usage(<<-1>>, << >>) }

OrderRows(rowsOf(_, _, _, _), ua, ub) ==
  rowsOf(WindowMonths[1], DeptA, M1, ua[1]) \o rowsOf(WindowMonths[1], DeptB, M1, ub[1])
  \o rowsOf(WindowMonths[1], DeptZ, M1, Usage(<<4>>, <<2>>))
  \o rowsOf(WindowMonths[2], DeptA, M1, ua[1]) \o rowsOf(WindowMonths[2], DeptB, M1, ub[1])
  \o rowsOf(WindowMonths[2], DeptZ, M1, Usage(<<4>>, <<2>>))
  \o rowsOf(WindowMonths[3], DeptA, M1, ua[2]) \o rowsOf(WindowMonths[3], DeptB, M1, ub[2])
  \o rowsOf(WindowMonths[3], DeptZ, M1, Usage(<<3>>, <<2>>))

OrderDBs ==
  { [BaseDB EXCEPT
       !.master = << MasterRow(M1, Num(200), Num(20), CatDM) >>,
       !.actual = OrderRows(actualOf, ua, ub),
       !.forecast = OrderRows(forecastOf, ua, ub)]
    : ua \in [1..2 -> OrderUsages], ub \in [1..2 -> OrderUsages] }

InitOrder == InitLoaded(OrderDBs)

NextOrder ==
  \/ \E mode \in DeptModes : SetDeptMode(mode)
  \/ \E opt \in MaterialOpts : SetMaterial(opt)

SpecOrder == InitOrder /\ [][NextOrder]_vars

\* Stores for the keys of the variances: material M1 (10 a unit) under two
\* departments, each 10 over or 10 under in every month of the window. A
\* department is plain, holds the key separator, is the placeholder text
\* of an empty department, or is missing.
DeptWithBar == <<"A", "|", "B">>

SeparatorDepts == {DeptA, DeptWithBar, Dash, Null}

SeparatorUsages == {Usage(<<3>>, <<2>>), Usage(<<2>>, <<3>>)}

SeparatorRows(rowsOf(_, _, _, _), d1, u1, d2, u2) ==
  rowsOf(WindowMonths[1], d1, M1, u1) \o rowsOf(WindowMonths[1], d2, M1, u2)
  \o rowsOf(WindowMonths[2], d1, M1, u1) \o rowsOf(WindowMonths[2], d2, M1, u2)
  \o rowsOf(WindowMonths[3], d1, M1, u1) \o rowsOf(WindowMonths[3], d2, M1, u2)

SeparatorDBs ==
  { [BaseDB EXCEPT
       !.master = << MasterRow(M1, Num(200), Num(20), CatDM) >>,
       !.actual = SeparatorRows(actualOf, d1, u1, d2, u2),
       !.forecast = SeparatorRows(forecastOf, d1, u1, d2, u2)]
    : d1 \in SeparatorDepts, u1 \in SeparatorUsages,
      d2 \in SeparatorDepts, u2 \in SeparatorUsages }

InitSeparator == InitLoaded(SeparatorDBs)

NextSeparator ==
  \/ \E mode \in DeptModes : SetDeptMode(mode)
  \/ \E opt \in MaterialOpts : SetMaterial(opt)

SpecSeparator == InitSeparator /\ [][NextSeparator]_vars

\* ------------------------------------------- the steps of the import page
pageVars == <<filters, deptOptions, masterMap, shopMap, cal1, cal2,
              actualRows, forecastRows, actual3m, forecast3m, inflight, hist>>

\* importNow up to its first await: the button is disabled while busy or
\* without prepared rows, and the call returns at once on an empty preview.
ImportStart ==
  /\ imp.preview # << >>
  /\ ~imp.busy
  /\ imp.calls < MaxImports
  /\ LET months == importMonths(imp.preview)
     IN  imp' = [imp EXCEPT !.busy = TRUE,
                            !.rows = imp.preview,
                            !.months = months,
                            !.chunks = IF months = << >>
                                       THEN chunk(imp.preview, ChunkSize)
                                       ELSE << >>,
                            !.pc = IF months = << >> THEN "insert" ELSE "purge",
                            !.log = << >>,
                            !.calls = @ + 1]
  /\ UNCHANGED <<db, pageVars>>

\* The delete of one month resolves, with or without an error.
ImportPurge(ok) ==
  /\ imp.pc = "purge"
  /\ LET ym == Head(imp.months)
         entry == [op |-> "purge", ym |-> ym, rows |-> << >>, ok |-> ok]
     IN  IF ok
         THEN /\ db' = [db EXCEPT !.actual = purged(@, ym)]
              /\ imp' = [imp EXCEPT
                           !.log = Append(@, entry),
                           !.months = Tail(@),
                           !.chunks = IF Len(imp.months) = 1
                                      THEN chunk(imp.rows, ChunkSize) ELSE @,
                           !.pc = IF Len(imp.months) = 1 THEN "insert" ELSE "purge"]
         ELSE /\ imp' = thrown(imp, entry)
              /\ UNCHANGED db
  /\ UNCHANGED pageVars

\* The insert of one group resolves, with or without an error; the store
\* inserts the whole group or nothing.
ImportInsert(ok) ==
  /\ imp.pc = "insert"
  /\ LET group == Head(imp.chunks)
         entry == [op |-> "insert", ym |-> <<0, 0>>, rows |-> group, ok |-> ok]
     IN  /\ ok => accepts(imp.strict, group)
         /\ IF ok
            THEN /\ db' = [db EXCEPT !.actual = @ \o group]
                 /\ imp' = [imp EXCEPT
                              !.log = Append(@, entry),
                              !.chunks = Tail(@),
                              !.pc = IF Len(imp.chunks) = 1 THEN "refresh"
                                     ELSE "insert"]
            ELSE /\ imp' = thrown(imp, entry)
                 /\ UNCHANGED db
  /\ UNCHANGED pageVars

\* refreshMissingList resolves (it catches its own errors), the success
\* toast is shown and finally clears busy.
ImportRefresh ==
  /\ imp.pc = "refresh"
  /\ imp' = [imp EXCEPT !.busy = FALSE, !.pc = "done",
                        !.okRuns = @ + 1,
                        !.snap = IF imp.okRuns = 0 THEN db.actual ELSE @]
  /\ UNCHANGED <<db, pageVars>>

\* The Clear button: setPreview([]); a running call keeps its rows.
ClearPreview ==
  /\ imp.preview # << >>
  /\ imp' = [imp EXCEPT !.preview = << >>, !.okRuns = 0]
  /\ UNCHANGED <<db, pageVars>>

\* ------------------------------------------------ the import page, loaded
\* The prepared rows of the import specification: a row of the selected
\* month, a row of the month before without department or quantity, a row
\* without posting date (its document date stands in for the month) and a
\* row whose posting date cell toYmd could not read.
PreparedLines ==
  { ActualRow(M1, DeptA, Num(3), Day(Now, 1), Day(Now, 2)),
    ActualRow(M2, Null, NullNum, Day(Prev, 2), Day(Prev, 2)),
    ActualRow(M1, DeptA, Num(5), NullDate, Day(Now, 2)),
    ActualRow(M2, DeptB, Num(1), NotADate, NullDate) }

MaxPreview == 3

InitImport ==
  /\ Loaded({BaseDB})
  /\ imp \in {ImportIdle(p, strict) :
                p \in SeqsUpTo(PreparedLines, MaxPreview) \ {<< >>},
                strict \in BOOLEAN}

NextImport ==
  \/ ImportStart
  \/ \E ok \in BOOLEAN : ImportPurge(ok)
  \/ \E ok \in BOOLEAN : ImportInsert(ok)
  \/ ImportRefresh
  \/ ClearPreview

SpecImport == InitImport /\ [][NextImport]_vars


\* ================================================================== claims
One == <<1, 1>>
RAbs(a) == <<Abs(a[1]), a[2]>>

\* The calendars in the page state are those fetched for the selected month.
CalendarsLoaded == hist.calFor = Period(filters)

lineValue(r) == RMul(RInt(r.quantity), vpu(r.no_mat))

forecastTotal ==
  RSumSeq([k \in 1..Len(filteredForecast) |-> lineValue(filteredForecast[k])])

\* C1: on every day of the selected month, for every set of filtered
\* forecast lines, the cumulative lower bound is at most the cumulative mid
\* forecast, which is at most the cumulative upper bound, both before and
\* after the two-decimal rounding of the displayed series.
C1_BoundsEncloseMid ==
  LET g == graphData
      fc == forecastCum
  IN  \A i \in 1..Len(g) :
        /\ RLe(fc.cumLowerByIdx[i], fc.cumMidByIdx[i])
        /\ RLe(fc.cumMidByIdx[i], fc.cumUpperByIdx[i])
        /\ RLe(g[i].cumForecastLower, g[i].cumForecast)
        /\ RLe(g[i].cumForecast, g[i].cumForecastUpper)

\* Two filtered lines and a day on which both bounds are strict.
C1_Witness ==
  LET g == graphData
  IN  /\ Len(filteredForecast) >= 2
      /\ \E i \in 1..Len(g) :
           /\ RLt(g[i].cumForecastLower, g[i].cumForecast)
           /\ RLt(g[i].cumForecast, g[i].cumForecastUpper)

\* C2: with the calendars of the selected month loaded, every filtered
\* forecast line has spread exactly quantity * unit value by the last day,
\* the last cumulative mid forecast is the total forecast value of the
\* filtered lines, and the daily values, rounded to two decimals each, sum
\* to that total within half a cent per day.
C2_ValueConserving ==
  CalendarsLoaded =>
    LET g == graphData
        n == Len(g)
        ff == filteredForecast
        fs == forecastSeries
    IN  /\ \A k \in 1..Len(ff) : fs[k][n].mid = lineValue(ff[k])
        /\ forecastCum.cumMidByIdx[n] = forecastTotal
        /\ g[n].cumForecast = toFixed2(forecastTotal)
        /\ RLe(RAbs(RSub(sumF, forecastTotal)), Rat(n, 200))

\* Lines on both calendars, unequal day weights, a non-zero total.
C2_Witness ==
  LET ff == filteredForecast
      w == weights
  IN  /\ CalendarsLoaded
      /\ \E k \in 1..Len(ff) : ff[k].loc = 2
      /\ \E k \in 1..Len(ff) : ff[k].loc # 2
      /\ w.w1[1] # w.w1[2]
      /\ w.w1[1] # Zero /\ w.w1[2] # Zero
      /\ forecastTotal # Zero

\* The load the store holds for a date in a calendar table (0 without a row).
storedLoad(table, d) ==
  LET on(r) == r.date = d
      rows == SelectSeq(table, on)
  IN  SumSeq([i \in 1..Len(rows) |-> dayWeight(rows[i])])

monthLoads(table) ==
  [i \in 1..Len(graphModeDates) |-> storedLoad(table, graphModeDates[i])]

expectedWeights(table) ==
  LET loads == monthLoads(table)
      total == SumSeq(loads)
  IN  [i \in 1..Len(loads) |->
        IF total = 0 THEN Rat(1, Len(loads)) ELSE Rat(loads[i], total)]

\* C3: with the calendars of the selected month loaded, each calendar's
\* weight vector sums to 1; a day's weight is its working plus overtime
\* load over the month's total, 0 for a day without a row, and 1/days for
\* every day when the month's total load is 0.
C3_WeightsSumToOne ==
  CalendarsLoaded =>
    LET w == weights
    IN  /\ w.w1 = expectedWeights(OrEmpty(Query("calender1", db.calender1)))
        /\ w.w2 = expectedWeights(OrEmpty(Query("calender2", db.calender2)))
        /\ RSumSeq(w.w1) = One
        /\ RSumSeq(w.w2) = One

\* Calendar 1 covers the month partly with a non-zero total; calendar 2
\* has no load at all and falls back to equal weights.
C3_Witness ==
  LET w == weights
      dates == graphModeDates
  IN  /\ CalendarsLoaded
      /\ \E i, j \in 1..Len(dates) :
           /\ dates[i] \notin {r.date : r \in Range(db.calender1)}
           /\ w.w1[i] = Zero
           /\ w.w1[j] # Zero
      /\ SumSeq(monthLoads(db.calender2)) = 0
      /\ \A i \in 1..Len(dates) : w.w2[i] = Rat(1, Len(dates))

isPackMultiple(units, pack) == units[2] = 1 /\ units[1] % pack = 0

\* The example of the specification: one line of 100 units of a material
\* with price 200 per pack of 20 (unit value 10) on calendar 1, whose first
\* two days carry equal load and the other days none.
C4_Example ==
  LET ff == filteredForecast
      raw == rawWeights(cal1)
  IN  /\ Len(raw) >= 2
      /\ Len(ff) = 1
      /\ ff[1].quantity = 100
      /\ ff[1].loc # 2
      /\ vpu(ff[1].no_mat) = RInt(10)
      /\ packOf(ff[1].no_mat) = 20
      /\ raw[1] > 0
      /\ raw[1] = raw[2]
      /\ \A i \in 3..Len(raw) : raw[i] = 0

\* C4: for every filtered forecast line and day, cumUnits is the line's
\* quantity times the sum of the weights up to that day; the line
\* contributes floor(cumUnits/pack)*pack*unitValue, cumUnits*unitValue and
\* ceil(cumUnits/pack)*pack*unitValue, the rounded units being the pack
\* multiples next to cumUnits; on an exact pack multiple the three are
\* equal; the example gives 400/500/600 and then 1000/1000/1000.
C4_PackRounding ==
  LET ff == filteredForecast
      fs == forecastSeries
      w == weights
  IN  /\ \A k \in 1..Len(ff) : \A i \in 1..Len(w.dates) :
           LET r == ff[k]
               c == fs[k][i]
               u == RMul(RInt(r.quantity),
                         RSumSeq(SubSeq(IF r.loc = 2 THEN w.w2 ELSE w.w1, 1, i)))
               p == packOf(r.no_mat)
               lo == RFloor(RDiv(c.lower, vpu(r.no_mat)))
               up == RCeil(RDiv(c.upper, vpu(r.no_mat)))
           IN  /\ c.units = u
               /\ c.mid = RMul(u, vpu(r.no_mat))
               /\ vpu(r.no_mat) # Zero =>
                    /\ c.lower = RMul(RInt(lo), vpu(r.no_mat))
                    /\ c.upper = RMul(RInt(up), vpu(r.no_mat))
                    /\ lo % p = 0 /\ up % p = 0
                    /\ RLe(RInt(lo), u) /\ RLe(u, RInt(up))
                    /\ up - lo = (IF isPackMultiple(u, p) THEN 0 ELSE p)
               /\ isPackMultiple(u, p) => c.lower = c.mid /\ c.upper = c.mid
      /\ C4_Example =>
           LET g == graphData
           IN  /\ g[1].cumForecastLower = RInt(400)
               /\ g[1].cumForecast = RInt(500)
               /\ g[1].cumForecastUpper = RInt(600)
               /\ g[2].cumForecastLower = RInt(1000)
               /\ g[2].cumForecast = RInt(1000)
               /\ g[2].cumForecastUpper = RInt(1000)

C4_Witness == C4_Example /\ filters.material = "all"

\* ----------------------------------------------------------------- C5
\* C5: every output of the view is computed only from lines that pass the
\* department and material filter: every period-total key and every delay
\* record comes from a row the filter accepts.
C5_SameFilteredUniverse ==
  /\ \A key \in DOMAIN monthTotalsByDeptMat :
       \/ \E r \in Range(actualRows) :
            actualPasses(r) /\ totalsKey(deptLabel(r.dept), r.no_mat) = key
       \/ \E r \in Range(forecastRows) :
            forecastPasses(r) /\ totalsKey(deptLabel(r.shop), r.no_mat) = key
  /\ \A d \in Range(delayedTransactions) :
       \E r \in Range(actualRows) :
         /\ actualPasses(r) /\ isDelayed(r)
         /\ r.no_mat = d.no_mat /\ deptLabel(r.dept) = d.shop
         /\ r.quantity = d.quantity

\* ----------------------------------------------------------------- C6
currentPending(kind) == \E r \in inflight : r.kind = kind /\ ~r.cancel

\* C6: no aggregate is produced until every read has completed: while a
\* read of the mounted page is still pending, the period totals are empty.
C6_Barrier ==
  DOMAIN monthTotalsByDeptMat # {} => \A r \in inflight : r.cancel

\* ----------------------------------------------------------------- C7
\* C7: once a read has failed the view yields no partial result: no
\* filtered rows and no period totals are produced from the other reads.
C7_AggregateFailure ==
  hist.failed # {} =>
    /\ filteredActual = << >>
    /\ filteredForecast = << >>
    /\ DOMAIN monthTotalsByDeptMat = {}

\* ----------------------------------------------------------------- C8
\* C8: a response of a superseded read never replaces the data of a newer
\* period: once the reads of the selected period have resolved, the stored
\* calendars and rows are those of the selected period, whatever responses
\* of superseded reads arrived before or after them.
C8_StaleDiscarded ==
  /\ ~currentPending("rows") =>
       /\ hist.rowsFor = Period(filters)
       /\ actualRows = mapActual(OrEmpty(selectActual(filters.year, filters.month)))
       /\ forecastRows = mapForecast(OrEmpty(selectForecast(filters.year, filters.month)))
  /\ ~currentPending("cal") =>
       /\ hist.calFor = Period(filters)
       /\ cal1 = buildCalMap(OrEmpty(selectCalendar("calender1", db.calender1,
                                                    filters.year, filters.month)),
                             filters.year, filters.month)
       /\ cal2 = buildCalMap(OrEmpty(selectCalendar("calender2", db.calender2,
                                                    filters.year, filters.month)),
                             filters.year, filters.month)

\* A superseded response arrived after the data of its successor was
\* stored, and the stored data is still that of the selected period.
C8_Witness ==
  /\ hist.lateDiscard
  /\ inflight = {}
  /\ hist.rowsFor = Period(filters) /\ hist.calFor = Period(filters)
  /\ actualRows # << >>

\* ------------------------------------------------------------- C9, C10
\* The department reference set: the trimmed, non-empty names of shop.dept.
knownDepts ==
  {Trim(r.dept) : r \in {x \in Range(db.shop) : x.dept # Null}} \ {Empty}

trimmedDept(d) == Trim(Coalesce(d, Empty))

\* The filtered tables are the rows accepted by the material filter and by
\* the given department test, in order.
filteredAre(deptOk(_)) ==
  LET fa == filteredActual
      ff == filteredForecast
      ea == SelectSeq(actualRows,
                      LAMBDA r : isMaterialAllowed(r.no_mat) /\ deptOk(r.dept))
      ef == SelectSeq(forecastRows,
                      LAMBDA r : isMaterialAllowed(r.no_mat) /\ deptOk(r.shop))
  IN  /\ Len(fa) = Len(ea)
      /\ \A i \in 1..Len(ea) :
           /\ fa[i].no_mat = ea[i].no_mat /\ fa[i].quantity = ea[i].quantity
           /\ fa[i].dept = Coalesce(ea[i].dept, Empty)
           /\ fa[i].posting_date = ea[i].posting_date
      /\ Len(ff) = Len(ef)
      /\ \A i \in 1..Len(ef) :
           /\ ff[i].no_mat = ef[i].no_mat /\ ff[i].quantity = ef[i].quantity
           /\ ff[i].shop = Coalesce(ef[i].shop, Empty)

\* C9 as stated: in mode unassigned a line passes iff its department value
\* is non-empty and absent from the department reference set.
C9_Original ==
  (filters.deptMode = "unassigned" /\ hist.deptDone) =>
    filteredAre(LAMBDA d : trimmedDept(d) # Empty /\ trimmedDept(d) \notin knownDepts)

\* C9, amended: in mode unassigned a line passes iff its trimmed department
\* value is empty (null, "" or blank) or absent from the department
\* reference set; a line whose department is in the set is excluded.
C9_UnassignedFilter ==
  (filters.deptMode = "unassigned" /\ hist.deptDone) =>
    filteredAre(LAMBDA d : trimmedDept(d) = Empty \/ trimmedDept(d) \notin knownDepts)

\* Mode unassigned with a null-department row kept and a known-department
\* row dropped.
C9_Witness ==
  /\ filters.deptMode = "unassigned" /\ hist.deptDone
  /\ \E i \in 1..Len(actualRows) :
       actualRows[i].dept = Null /\ actualPasses(actualRows[i])
  /\ \E i \in 1..Len(actualRows) :
       trimmedDept(actualRows[i].dept) \in knownDepts /\ ~actualPasses(actualRows[i])

selectedDept == Coalesce(filters.deptSelected, Empty)

\* C10 as stated: in mode list a line passes iff its department field
\* equals the selected name exactly; in mode all every line passes.
C10_Original ==
  /\ filters.deptMode = "list" => filteredAre(LAMBDA d : d = selectedDept)
  /\ filters.deptMode = "all" => filteredAre(LAMBDA d : TRUE)

\* C10, amended: in mode list a line passes iff its department field is
\* present and equals the selected name after both are trimmed of
\* surrounding whitespace; in mode all every line passes.
C10_ListFilter ==
  /\ filters.deptMode = "list" =>
       filteredAre(LAMBDA d : d # Null /\ Trim(d) = Trim(selectedDept))
  /\ filters.deptMode = "all" => filteredAre(LAMBDA d : TRUE)

\* Mode list with department A selected: a row stored as " A" is kept and
\* a row of another department is dropped.
C10_Witness ==
  /\ filters.deptMode = "list" /\ filters.deptSelected = DeptA
  /\ \E i \in 1..Len(actualRows) :
       actualRows[i].dept = <<" ", "A">> /\ actualPasses(actualRows[i])
  /\ \E i \in 1..Len(actualRows) :
       actualRows[i].dept = DeptZ /\ ~actualPasses(actualRows[i])

\* ---------------------------------------------------------------- C11
\* The category class of a material as the store gives it: that of the
\* spelling in its master row, Unassigned without a master row.
storedCategory(no_mat) ==
  LET rows == {i \in 1..Len(db.master) : db.master[i].no_mat = no_mat}
  IN  IF rows = {} THEN "Unassigned"
      ELSE LET text == db.master[CHOOSE i \in rows : \A j \in rows : j <= i].category
           IN  IF text \in DirectSpellings THEN "Direct Material"
               ELSE IF text \in IndirectSpellings THEN "Indirect Material"
               ELSE "Unassigned"

\* The filtered tables hold, in order, the rows whose material passes ok
\* (the department filter passing every row).
materialFilteredAre(ok(_)) ==
  LET fa == filteredActual
      ff == filteredForecast
      ea == SelectSeq(actualRows, LAMBDA r : ok(r.no_mat))
      ef == SelectSeq(forecastRows, LAMBDA r : ok(r.no_mat))
  IN  /\ Len(fa) = Len(ea) /\ Len(ff) = Len(ef)
      /\ \A i \in 1..Len(ea) :
           fa[i].no_mat = ea[i].no_mat /\ fa[i].quantity = ea[i].quantity
      /\ \A i \in 1..Len(ef) :
           ff[i].no_mat = ef[i].no_mat /\ ff[i].quantity = ef[i].quantity

\* C11: the material filter passes every line in mode all; in a named
\* category mode exactly the lines whose material is of that category; in
\* mode Unassigned exactly the lines whose material is of neither named
\* category, a material without a master row included.
C11_MaterialFilter ==
  filters.deptMode = "all" =>
    /\ filters.material = "all" => materialFilteredAre(LAMBDA no : TRUE)
    /\ filters.material \in {"Direct Material", "Indirect Material"} =>
         materialFilteredAre(LAMBDA no : storedCategory(no) = filters.material)
    /\ filters.material = "Unassigned" =>
         materialFilteredAre(LAMBDA no :
           storedCategory(no) \notin {"Direct Material", "Indirect Material"})

\* Mode Unassigned keeps the line of the material without a master row and
\* drops the line of a direct material.
C11_Witness ==
  /\ filters.material = "Unassigned" /\ filters.deptMode = "all"
  /\ M3 \notin DOMAIN masterMap
  /\ \E i \in 1..Len(filteredActual) : filteredActual[i].no_mat = M3
  /\ storedCategory(M1) = "Direct Material"
  /\ \A i \in 1..Len(filteredActual) : filteredActual[i].no_mat # M1

\* ---------------------------------------------------------------- C12
\* The calendar days of the model, and the number of days from a to b.
CalendarDays ==
  {<<y, m, d>> : y \in Years, m \in 1..12, d \in 1..NumDays} \cup
  {<<Following.year, Following.month, d>> : d \in 1..NumDays}

daysFromTo(a, b) == Cardinality({d \in CalendarDays : DateLe(a, d) /\ DateLt(d, b)})

\* The delay record a late transaction must give.
expectedDelay(r) ==
  [no_mat |-> r.no_mat, shop |-> deptLabel(r.dept), quantity |-> r.quantity,
   delayedDays |-> daysFromTo(r.posting_date, r.document_date)]

isLate(r) ==
  /\ r.posting_date # NullDate /\ r.document_date # NullDate
  /\ DateLt(r.posting_date, r.document_date)

\* C12: the delay records are exactly those of the actual transactions of
\* the period with both dates present and postingDate < documentDate, one
\* record each, with delayedDays the number of days between the two dates;
\* a transaction with postingDate >= documentDate or without documentDate
\* gives no record.
C12_DelayRecords ==
  LET out == delayedTransactions
      late == SelectSeq(actualRows, isLate)
      recs == {out[i] : i \in 1..Len(out)} \cup {expectedDelay(late[i]) : i \in 1..Len(late)}
  IN  /\ Len(out) = Len(late)
      /\ \A x \in recs :
           Cardinality({i \in 1..Len(out) : out[i] = x})
             = Cardinality({i \in 1..Len(late) : expectedDelay(late[i]) = x})
      /\ \A i \in 1..Len(out) : out[i].delayedDays >= 1

\* Two transactions of the period, one with a document date in the
\* following month, one posted on its document date: one record.
C12_Witness ==
  /\ Len(actualRows) = 2
  /\ Len(delayedTransactions) = 1
  /\ delayedTransactions[1].delayedDays = NumDays + 1
  /\ \E i \in 1..2 : actualRows[i].document_date = actualRows[i].posting_date

\* ---------------------------------------------------------------- C13
\* The unit value of a material as the store gives it.
storedUnitValue(no_mat) ==
  LET rows == {i \in 1..Len(db.master) : db.master[i].no_mat = no_mat}
  IN  IF rows = {} \/ "master" \in db.down THEN Zero
      ELSE LET r == db.master[CHOOSE i \in rows : \A j \in rows : j <= i]
           IN  Rat(safeNumber(r.Price, 0), Max(1, safeNumber(r.qty, 1)))

\* The value of the stored rows of one (department label, material) in one
\* month: actual and forecast.
storedActual(per, dept, no_mat) ==
  RSumSeq([i \in 1..Len(db.actual) |->
    LET r == db.actual[i]
    IN  IF /\ r.posting_date[1] = per.year /\ r.posting_date[2] = per.month
           /\ deptLabel(r.dept) = dept /\ r.no_mat = no_mat
        THEN RMul(RInt(safeNumber(r.quantity, 0)), storedUnitValue(no_mat)) ELSE Zero])

storedForecast(per, dept, no_mat) ==
  RSumSeq([i \in 1..Len(db.forecast) |->
    LET r == db.forecast[i]
    IN  IF /\ r.month[1] = per.year /\ r.month[2] = per.month
           /\ deptLabel(r.shop) = dept /\ r.no_mat = no_mat
        THEN RMul(RInt(safeNumber(r.usage, 0)), storedUnitValue(no_mat)) ELSE Zero])

storedDelta(per, k) ==
  RSub(storedActual(per, k[1], k[2]), storedForecast(per, k[1], k[2]))

\* The (department label, material) pairs with a row in the store.
storedKeys ==
  {<<deptLabel(db.actual[i].dept), db.actual[i].no_mat>> : i \in 1..Len(db.actual)} \cup
  {<<deptLabel(db.forecast[i].shop), db.forecast[i].no_mat>> : i \in 1..Len(db.forecast)}

keysOf(recs) == {<<recs[i].dept, recs[i].no_mat>> : i \in 1..Len(recs)}

\* The lists name each key of deltaOk exactly, once each.
continuousAre(overOk(_), underOk(_)) ==
  LET over == continuousOver
      under == continuousUnder
  IN  /\ Cardinality(keysOf(over)) = Len(over)
      /\ Cardinality(keysOf(under)) = Len(under)
      /\ \A k \in storedKeys \cup keysOf(over) \cup keysOf(under) :
           /\ k \in keysOf(over) <=> overOk(k)
           /\ k \in keysOf(under) <=> underOk(k)

\* C13 as stated: a key is in continuousOver iff its actual-minus-forecast
\* delta is strictly positive in each of the three months, in
\* continuousUnder iff it is strictly negative in each.
C13_Original ==
  continuousAre(
    LAMBDA k : \A i \in 1..3 : RLt(Zero, storedDelta(WindowMonths[i], k)),
    LAMBDA k : \A i \in 1..3 : RLt(storedDelta(WindowMonths[i], k), Zero))

\* C13, amended: a key is in continuousOver iff its actual-minus-forecast
\* delta, rounded to two decimals, is strictly positive in each of the three
\* months, and in continuousUnder iff the rounded delta is strictly negative
\* in each; a key with a month whose rounded delta is zero or of the
\* opposite sign is in neither list.
C13_ContinuousLists ==
  continuousAre(
    LAMBDA k : \A i \in 1..3 : RLt(Zero, toFixed2(storedDelta(WindowMonths[i], k))),
    LAMBDA k : \A i \in 1..3 : RLt(toFixed2(storedDelta(WindowMonths[i], k)), Zero))

\* (A, M1) is over in each month and listed; (A, M2) has rows in each month
\* and is over in the older two, under in the newest: in neither list.
C13_Witness ==
  /\ <<DeptA, M1>> \in keysOf(continuousOver)
  /\ \A i \in 1..2 : RLt(Zero, toFixed2(storedDelta(WindowMonths[i], <<DeptA, M2>>)))
  /\ RLt(storedDelta(WindowMonths[3], <<DeptA, M2>>), Zero)
  /\ <<DeptA, M2>> \notin keysOf(continuousOver) \cup keysOf(continuousUnder)

\* ---------------------------------------------------------------- C14
\* Whether the material filter in force accepts a material of the store.
materialSelected(no_mat) ==
  filters.material = "all" \/ storedCategory(no_mat) = filters.material

\* The keys of the selected period whose lines the filters accept.
periodKeys ==
  {k \in storedKeys :
     /\ materialSelected(k[2])
     /\ \/ \E i \in 1..Len(db.actual) :
             /\ db.actual[i].posting_date[1] = filters.year
             /\ db.actual[i].posting_date[2] = filters.month
             /\ <<deptLabel(db.actual[i].dept), db.actual[i].no_mat>> = k
        \/ \E i \in 1..Len(db.forecast) :
             /\ db.forecast[i].month[1] = filters.year
             /\ db.forecast[i].month[2] = filters.month
             /\ <<deptLabel(db.forecast[i].shop), db.forecast[i].no_mat>> = k}

\* A list of usage rows names exactly the keys of periodKeys whose
\* difference is positive, once each, with that difference, the larger
\* difference first.
usageListIs(rows, diffOf(_)) ==
  /\ Cardinality(keysOf(rows)) = Len(rows)
  /\ \A k \in periodKeys \cup keysOf(rows) :
       k \in keysOf(rows) <=> (k \in periodKeys /\ RLt(Zero, diffOf(k)))
  /\ \A i \in 1..Len(rows) :
       /\ RLe(toFixed2(diffOf(<<rows[i].dept, rows[i].no_mat>>)), rows[i].diff)
       /\ RLe(rows[i].diff, toFixed2(diffOf(<<rows[i].dept, rows[i].no_mat>>)))
  /\ \A i \in 1..Len(rows) : \A j \in (i + 1)..Len(rows) : RLe(rows[j].diff, rows[i].diff)

\* C14 as stated: overUsage holds exactly the keys with
\* actualValue - forecastValue > 0, underUsage exactly those with
\* forecastValue - actualValue > 0, each by descending difference.
C14_Original ==
  /\ usageListIs(overUsageRows, LAMBDA k : storedDelta(Period(filters), k))
  /\ usageListIs(underUsageRows, LAMBDA k : RSub(Zero, storedDelta(Period(filters), k)))

\* C14, amended: overUsage holds exactly the keys of the filtered lines
\* whose actualValue - forecastValue, rounded to two decimals, is > 0, and
\* underUsage exactly those whose rounded forecastValue - actualValue is
\* > 0, each list ordered by descending rounded difference.
C14_UsageLists ==
  /\ usageListIs(overUsageRows, LAMBDA k : toFixed2(storedDelta(Period(filters), k)))
  /\ usageListIs(underUsageRows,
                 LAMBDA k : toFixed2(RSub(Zero, storedDelta(Period(filters), k))))

\* Two keys under forecast in the selected month, the later one of the
\* totals with the larger difference, listed first.
C14_Witness ==
  /\ Len(underUsageRows) = 2
  /\ underUsageRows[1].no_mat = M1 /\ underUsageRows[2].no_mat = M2
  /\ RLt(underUsageRows[2].diff, underUsageRows[1].diff)
  /\ totalsValues[1].no_mat = M2
  /\ overUsageRows = << >>

\* ---------------------------------------------------------------- C15
\* A material without a row in the material reference.
isUnknownMaterial(no_mat) == \A i \in 1..Len(db.master) : db.master[i].no_mat # no_mat

inPeriod(date) == date[1] = filters.year /\ date[2] = filters.month

\* C15: a line of a material absent from the material reference is not
\* dropped. With a material filter that admits it (all or Unassigned) each
\* such stored line of the period is in the filtered lines with value 0 and
\* its key is in the period totals with forecast and actual value 0; and
\* under every filter no key of such a material is in overUsage,
\* underUsage, continuousOver or continuousUnder.
C15_UnknownMaterialKept ==
  LET fa == filteredActual
      ff == filteredForecast
      totals == monthTotalsByDeptMat
      storedA == SelectSeq(db.actual, LAMBDA r :
                   isUnknownMaterial(r.no_mat) /\ inPeriod(r.posting_date))
      storedF == SelectSeq(db.forecast, LAMBDA r :
                   isUnknownMaterial(r.no_mat) /\ inPeriod(r.month))
      keptA == SelectSeq(fa, LAMBDA r : isUnknownMaterial(r.no_mat))
      keptF == SelectSeq(ff, LAMBDA r : isUnknownMaterial(r.no_mat))
  IN  /\ \A i \in 1..Len(keptA) : keptA[i].value = Zero
      /\ \A i \in 1..Len(keptF) : keptF[i].value = Zero
      /\ (filters.material \in {"all", "Unassigned"} /\ filters.deptMode = "all") =>
           /\ Len(keptA) = Len(storedA) /\ Len(keptF) = Len(storedF)
           /\ \A i \in 1..Len(storedA) :
                /\ keptA[i].quantity = safeNumber(storedA[i].quantity, 0)
                /\ totalsKey(deptLabel(storedA[i].dept), storedA[i].no_mat) \in DOMAIN totals
           /\ \A i \in 1..Len(storedF) :
                /\ keptF[i].quantity = safeNumber(storedF[i].usage, 0)
                /\ totalsKey(deptLabel(storedF[i].shop), storedF[i].no_mat) \in DOMAIN totals
      /\ \A key \in DOMAIN totals :
           isUnknownMaterial(totals[key].no_mat) =>
             totals[key].forecastValue = Zero /\ totals[key].actualValue = Zero
      /\ \A k \in keysOf(overUsageRows) \cup keysOf(underUsageRows)
                  \cup keysOf(continuousOver) \cup keysOf(continuousUnder) :
           ~isUnknownMaterial(k[2])

\* Material M3 has no master row and is used above its forecast in each
\* month; its lines are in the filtered tables and the totals, and the
\* over-usage list holds another key.
C15_Witness ==
  /\ filters.material = "all"
  /\ isUnknownMaterial(M3)
  /\ \E i \in 1..Len(filteredActual) : filteredActual[i].no_mat = M3
  /\ \E i \in 1..Len(filteredForecast) : filteredForecast[i].no_mat = M3
  /\ totalsKey(DeptB, M3) \in DOMAIN monthTotalsByDeptMat
  /\ overUsageRows # << >> /\ continuousOver # << >>

\* ---------------------------------------------------------------- C16
\* The three-month sums of a key, from the stored rows.
windowActual(k) ==
  RAdd(RAdd(storedActual(WindowMonths[1], k[1], k[2]),
            storedActual(WindowMonths[2], k[1], k[2])),
       storedActual(WindowMonths[3], k[1], k[2]))

windowForecast(k) ==
  RAdd(RAdd(storedForecast(WindowMonths[1], k[1], k[2]),
            storedForecast(WindowMonths[2], k[1], k[2])),
       storedForecast(WindowMonths[3], k[1], k[2]))

continuousRecords == Range(continuousOver) \cup Range(continuousUnder)

\* C16 as stated: the ratio of a record is sum(actual)/sum(forecast)*100
\* whenever the three-month forecast sum is non-zero, and null exactly when
\* that sum is 0.
C16_Original ==
  \A r \in continuousRecords :
    LET k == <<r.dept, r.no_mat>>
    IN  IF windowForecast(k) # Zero
        THEN /\ ~r.pct3m.null
             /\ r.pct3m.value = RMul(RDiv(windowActual(k), windowForecast(k)), RInt(100))
        ELSE r.pct3m.null

\* C16, amended: the ratio of a record is sum(actual)/sum(forecast)*100
\* rounded to two decimals whenever the three-month forecast sum is
\* positive, and null exactly when that sum is 0 or negative.
C16_UsageRatio ==
  \A r \in continuousRecords :
    LET k == <<r.dept, r.no_mat>>
    IN  IF RLt(Zero, windowForecast(k))
        THEN /\ ~r.pct3m.null
             /\ r.pct3m.value
                  = toFixed2(RMul(RDiv(windowActual(k), windowForecast(k)), RInt(100)))
        ELSE r.pct3m.null

\* A record whose ratio 2/3 is given as 66.67, and a record of a key
\* without forecast, its ratio null.
C16_Witness ==
  /\ \E r \in continuousRecords : ~r.pct3m.null /\ r.pct3m.value = Rat(6667, 100)
  /\ \E r \in continuousRecords : r.pct3m.null /\ windowForecast(<<r.dept, r.no_mat>>) = Zero

\* ---------------------------------------------------------------- C17
\* The period totals of a department, from the stored rows of the selected
\* period that the material filter accepts.
deptActual(d) ==
  RSumSeq([i \in 1..Len(db.actual) |->
    LET r == db.actual[i]
    IN  IF inPeriod(r.posting_date) /\ deptLabel(r.dept) = d /\ materialSelected(r.no_mat)
        THEN RMul(RInt(safeNumber(r.quantity, 0)), storedUnitValue(r.no_mat)) ELSE Zero])

deptForecast(d) ==
  RSumSeq([i \in 1..Len(db.forecast) |->
    LET r == db.forecast[i]
    IN  IF inPeriod(r.month) /\ deptLabel(r.shop) = d /\ materialSelected(r.no_mat)
        THEN RMul(RInt(safeNumber(r.usage, 0)), storedUnitValue(r.no_mat)) ELSE Zero])

\* The summary has one row per department of the period totals, with the
\* department's totals and the usage percentage pctOk asks for.
deptSummaryIs(pctOk(_, _, _)) ==
  LET rows == deptSummary
      depts == {totalsValues[i].dept : i \in 1..Len(totalsValues)}
  IN  /\ {rows[i].dept : i \in 1..Len(rows)} = depts
      /\ depts = {k[1] : k \in periodKeys}
      /\ Len(rows) = Cardinality(depts)
      /\ \A i \in 1..Len(rows) :
           /\ rows[i].forecast = deptForecast(rows[i].dept)
           /\ rows[i].actual = deptActual(rows[i].dept)
           /\ pctOk(rows[i].usagePct, rows[i].actual, rows[i].forecast)

\* C17 as stated: usagePct equals actual/forecast*100 and is null exactly
\* when the department's forecast total is 0.
C17_Original ==
  deptSummaryIs(LAMBDA p, a, f :
    IF f # Zero THEN ~p.null /\ p.value = RMul(RDiv(a, f), RInt(100)) ELSE p.null)

\* C17, amended: departmentSummary has one row per department occurring in
\* the period totals; its forecast and actual are the sums of the period
\* totals of the department's keys; usagePct is actual/forecast*100 rounded
\* to two decimals when the forecast total is positive, and null exactly
\* when the forecast total is 0 or negative.
C17_DeptSummary ==
  deptSummaryIs(LAMBDA p, a, f :
    IF RLt(Zero, f)
    THEN ~p.null /\ p.value = toFixed2(RMul(RDiv(a, f), RInt(100)))
    ELSE p.null)

\* Department A with the totals of two materials rolled up and a
\* percentage; department B, whose material has no value, with null.
C17_Witness ==
  /\ Len(deptSummary) = 2
  /\ \E i \in 1..2 :
       /\ deptSummary[i].dept = DeptA /\ ~deptSummary[i].usagePct.null
       /\ deptSummary[i].forecast = RInt(22)
       /\ deptSummary[i].actual = RInt(20)
  /\ \E i \in 1..2 : deptSummary[i].dept = DeptB /\ deptSummary[i].usagePct.null

\* ---------------------------------------------------------------- C18
\* No read of the given kind is pending (superseded runs may be).
resolved(kind) == \A r \in inflight : r.kind = kind => r.cancel

settled == \A r \in inflight : r.cancel

\* C18: the view has no hidden state. Once the reads of a piece of page
\* state have resolved, that piece is a function of the store and the
\* filter settings alone, whatever periods and filters were selected before
\* and in whatever order the responses arrived; the outputs being functions
\* of that state, equal inputs give equal outputs once all reads resolved.
C18_Deterministic ==
  LET y == filters.year
      m == filters.month
  IN  /\ resolved("dept") =>
           deptOptions =
             (IF "shop" \in db.down THEN {}
              ELSE buildDeptOptions(SelectSeq(db.shop, LAMBDA x : x.dept # Null)))
      /\ resolved("ref") =>
           /\ masterMap = buildMasterMap(OrEmpty(Query("master", db.master)))
           /\ shopMap = buildShopMap(OrEmpty(Query("shop", db.shop)))
      /\ resolved("cal") =>
           /\ cal1 = buildCalMap(OrEmpty(selectCalendar("calender1", db.calender1, y, m)), y, m)
           /\ cal2 = buildCalMap(OrEmpty(selectCalendar("calender2", db.calender2, y, m)), y, m)
      /\ resolved("rows") =>
           /\ actualRows = mapActual(OrEmpty(selectActual(y, m)))
           /\ forecastRows = mapForecast(OrEmpty(selectForecast(y, m)))
      /\ resolved("rows3") =>
           /\ actual3m = mapActual(OrEmpty(select3Actual(y, m)))
           /\ forecast3m = mapForecast(OrEmpty(select3Forecast(y, m)))

\* The reads have resolved for a period selected after another one, a
\* superseded response having arrived late, with filters set.
C18_Witness ==
  /\ settled /\ hist.lateDiscard
  /\ Period(filters) = Prev
  /\ filters.material = "Direct Material" /\ filters.deptMode = "unassigned"
  /\ actual3m # << >> /\ forecastRows # << >>

\* ---------------------------------------------------------------- C19
\* The text raw reads as word: spaces, then the letters of word in either
\* case, then spaces.
readsAs(raw, word) ==
  LET s == IF raw = Null THEN Empty ELSE raw
      n == Len(word)
  IN  \E a \in 0..Len(s) :
        /\ a + n <= Len(s)
        /\ \A i \in 1..a : s[i] = " "
        /\ \A i \in (a + n + 1)..Len(s) : s[i] = " "
        /\ \A i \in 1..n :
             \/ s[a + i] = word[i]
             \/ \E k \in 1..Len(LowerLetters) :
                  LowerLetters[k] = word[i] /\ UpperLetters[k] = s[a + i]

\* The category of every material is the class its text reads as, the
\* classes being given by their words.
categoriesAre(directWords, indirectWords) ==
  \A no \in {M1, M2, M3} :
    LET raw == categoryOf(no)
        norm == normalizeCategory(raw)
    IN  IF \E w \in directWords : readsAs(raw, w) THEN norm = "Direct Material"
        ELSE IF \E w \in indirectWords : readsAs(raw, w) THEN norm = "Indirect Material"
        ELSE norm = "Unassigned"

WordDirect == <<"d", "i", "r", "e", "c", "t">>
WordDM == <<"d", "m">>
WordIndirect == <<"i", "n", "d", "i", "r", "e", "c", "t">>
WordIM == <<"i", "m">>
WordMaterial == <<" ", "m", "a", "t", "e", "r", "i", "a", "l">>

\* C19 as stated: "direct" and "dm" give Direct, "indirect" and "im" give
\* Indirect, every other value gives Unassigned.
C19_Original == categoriesAre({WordDirect, WordDM}, {WordIndirect, WordIM})

\* C19: after trimming and without regard to case, "direct", "direct
\* material" and "dm" give Direct, "indirect", "indirect material" and "im"
\* give Indirect, and every other value, null and the empty text included,
\* gives Unassigned.
C19_CategoryNormalized ==
  categoriesAre({WordDirect, WordDirect \o WordMaterial, WordDM},
                {WordIndirect, WordIndirect \o WordMaterial, WordIM})

\* A padded upper-case spelling is Direct, "IM" is Indirect in another
\* store state, null is Unassigned.
C19_Witness ==
  /\ categoryOf(M1) = <<" ", "D", "I", "R", "E", "C", "T", " ">>
  /\ normalizeCategory(categoryOf(M1)) = "Direct Material"
  /\ categoryOf(M2) = Null
  /\ normalizeCategory(categoryOf(M2)) = "Unassigned"
  /\ normalizeCategory(categoryOf(M3)) = "Unassigned"
  /\ filters.material = "Indirect Material"

\* ---------------------------------------------------------------- C20
\* A quotient whose divisor was not 0.
finite(x) == x[2] > 0

\* C20: no step divides by zero. The totals the weights are divided by are
\* not 0; the pack size of every material is at least 1; the unit value is
\* price / max(1, quantity) of the master row and 0 without a master row;
\* hence every weight and every figure of the graph is a finite number.
C20_NoDivisionByZero ==
  /\ weightTotal(rawWeights(cal1)) # 0
  /\ weightTotal(rawWeights(cal2)) # 0
  /\ \A no \in {M1, M2, M3} :
       /\ packOf(no) >= 1
       /\ vpu(no) = storedUnitValue(no)
       /\ finite(vpu(no))
  /\ vpu(M3) = Zero
  /\ LET w == weights
     IN  \A i \in 1..Len(w.dates) : finite(w.w1[i]) /\ finite(w.w2[i])
  /\ LET g == graphData
     IN  \A i \in 1..Len(g) :
           /\ finite(g[i].actual) /\ finite(g[i].forecast)
           /\ finite(g[i].cumActual) /\ finite(g[i].cumForecast)
           /\ finite(g[i].cumForecastLower) /\ finite(g[i].cumForecastUpper)

\* The master row of M1 has quantity 0, M3 has no master row, calendar 1
\* has no entries for the month and the loads kept of calendar 2 sum to 0;
\* the lines of the three materials are all in the graph.
C20_Witness ==
  /\ db.master[1].no_mat = M1 /\ db.master[1].qty = Num(0)
  /\ packOf(M1) = 1 /\ vpu(M1) = RInt(200)
  /\ M3 \notin DOMAIN masterMap /\ packOf(M3) = 1
  /\ db.calender1 = << >>
  /\ SumSeq(rawWeights(cal2)) = 0 /\ weightTotal(rawWeights(cal2)) = 1
  /\ filters.material = "all" /\ filters.deptMode = "all"
  /\ Len(filteredForecast) = 3
  /\ graphData[NumDays].cumForecast # Zero

\* ---------------------------------------------------------------- C21
Reverse(s) == [i \in 1..Len(s) |-> s[Len(s) + 1 - i]]

postedOn(i) ==
  SelectSeq(filteredActual, LAMBDA r : r.posting_date = graphModeDates[i])

postedValue(i, round(_)) ==
  LET rows == postedOn(i)
  IN  RSumSeq([k \in 1..Len(rows) |->
        round(RMul(RInt(rows[k].quantity), storedUnitValue(rows[k].no_mat)))])

\* The daily actual values are those of daily, and the cumulative actual of
\* each day is the sum of the daily actual values up to that day.
actualSeriesIs(daily(_)) ==
  LET g == graphData
  IN  \A i \in 1..Len(g) :
        /\ g[i].actual = daily(i)
        /\ g[i].cumActual = RSumSeq([j \in 1..i |-> g[j].actual])

\* C22 as stated: the daily actual value is the sum of quantity * unit
\* value of the day's transactions (shown with two decimals).
C22_Original ==
  actualSeriesIs(LAMBDA i : toFixed2(postedValue(i, LAMBDA x : x)))

\* C22: the daily actual value of every day is the sum, over the filtered
\* transactions posted that day, of quantity * unit value rounded to two
\* decimals per transaction (0 when there are none), and the cumulative
\* actual of a day is the sum of the daily values up to and including it.
C22_ActualSeries ==
  actualSeriesIs(LAMBDA i : postedValue(i, toFixed2))

\* Two transactions of 4 units worth 7/3 a unit on day 1, none on day 2.
C22_Witness ==
  LET g == graphData
  IN  /\ Len(postedOn(1)) = 2 /\ Len(postedOn(2)) = 0
      /\ \A k \in 1..2 : postedOn(1)[k].no_mat = M2 /\ postedOn(1)[k].quantity = 4
      /\ g[1].actual = Rat(1866, 100) /\ g[2].actual = Zero
      /\ g[2].cumActual = Rat(1866, 100)

\* ---------------------------------------------------------------- C23
\* The ratio of a record as the order reads it: a null ratio counts as -1.
ratioKey(r) == IF r.pct3m.null THEN RInt(-1) ELSE r.pct3m.value

\* C23: continuousOver is in descending order of the current-month delta,
\* records of equal delta in descending order of the three-month ratio;
\* continuousUnder is in descending order of the absolute current-month
\* delta, records of equal delta in ascending order of the ratio.
C23_ContinuousOrder ==
  LET over == continuousOver
      under == continuousUnder
  IN  /\ \A i, j \in 1..Len(over) : i < j =>
           \/ RLt(over[j].diff3, over[i].diff3)
           \/ over[j].diff3 = over[i].diff3 /\ RLe(ratioKey(over[j]), ratioKey(over[i]))
      /\ \A i, j \in 1..Len(under) : i < j =>
           \/ RLt(RAbs(under[j].diff3), RAbs(under[i].diff3))
           \/ /\ RAbs(under[j].diff3) = RAbs(under[i].diff3)
              /\ RLe(ratioKey(under[i]), ratioKey(under[j]))

\* Three keys over in every month: department B, whose rows come after
\* those of department A, is first by its larger ratio at equal
\* current-month delta, before A and Z.
C23_Witness ==
  LET over == continuousOver
  IN  /\ Len(over) = 3
      /\ over[1].dept = DeptB /\ over[2].dept = DeptA
      /\ over[1].diff3 = over[2].diff3 /\ over[2].diff3 = over[3].diff3
      /\ ~over[1].pct3m.null /\ ~over[2].pct3m.null
      /\ RLt(ratioKey(over[2]), ratioKey(over[1]))
      /\ diffRecs[1].dept = DeptA /\ diffRecs[2].dept = DeptB

\* ---------------------------------------------------------------- C24
\* The calendar month before a (year, month).
previousMonth(ym) == IF ym[2] = 1 THEN <<ym[1] - 1, 12>> ELSE <<ym[1], ym[2] - 1>>

\* C24: the window is the selected month and the two calendar months before
\* it, oldest first, also across a year boundary; and once the window's
\* rows are read, the actual and forecast value bucketed under a month of
\* the window and a (department, material) are those of the stored
\* transactions posted in that month and of the stored forecast lines of
\* that month.
C24_Window ==
  LET cur == <<filters.year, filters.month>>
      one == previousMonth(cur)
      two == previousMonth(one)
      av == actual3Visits
      fv == forecast3Visits
  IN  /\ threeMonthKeys = <<two, one, cur>>
      /\ (resolved("rows3") /\ resolved("ref") /\ db.down = {}) =>
           \A i \in 1..3 : \A k \in storedKeys :
             LET per == [year |-> threeMonthKeys[i][1], month |-> threeMonthKeys[i][2]]
                 key == windowKey(threeMonthKeys[i], k[1], k[2])
             IN  /\ windowGet(av, key) = storedActual(per, k[1], k[2])
                 /\ windowGet(fv, key) = storedForecast(per, k[1], k[2])

\* January 2025 is selected: the window is November 2024 to January 2025,
\* and the transaction and the forecast line of December 2024 are in the
\* bucket of December.
C24_Witness ==
  /\ Period(filters) = Now /\ resolved("rows3") /\ resolved("ref") /\ db.down = {}
  /\ threeMonthKeys = << <<2024, 11>>, <<2024, 12>>, <<2025, 1>> >>
  /\ windowGet(actual3Visits, windowKey(<<2024, 12>>, DeptB, M1)) = RInt(10)
  /\ windowGet(forecast3Visits, windowKey(<<2024, 12>>, DeptB, M1)) = RInt(500)
  /\ windowGet(actual3Visits, windowKey(<<2025, 1>>, DeptA, M1)) = RInt(30)
  /\ hist.lateDiscard

\* ---------------------------------------------------------------- C25
\* The period totals over all keys, and half a cent.
totalActual == LET t == totalsValues IN RSumSeq([i \in 1..Len(t) |-> t[i].actualValue])
totalForecast == LET t == totalsValues IN RSumSeq([i \in 1..Len(t) |-> t[i].forecastValue])
HalfCent == Rat(1, 200)

\* C25 as stated: the totals over all keys and the sums of the daily series
\* agree as amounts of two decimals, and so do the sum of the key deltas and
\* the gap.
C25_Original ==
  /\ toFixed2(totalActual) = toFixed2(sumA)
  /\ toFixed2(totalForecast) = toFixed2(sumF)
  /\ toFixed2(RSub(totalActual, totalForecast)) = toFixed2(RSub(sumA, sumF))

\* C25: the sum of actualValue over all keys differs from the sum of the
\* daily actual series by at most half a cent per filtered transaction;
\* with calendar weights that sum to one the sum of forecastValue over all
\* keys differs from the sum of the daily forecast series by at most half a
\* cent per day; the sum of the key deltas differs from the gap by at most
\* the two together.
C25_TotalsAgree ==
  LET rows == RInt(Len(filteredActual))
      days == RInt(Len(graphModeDates))
      errA == RAbs(RSub(totalActual, sumA))
      errF == RAbs(RSub(totalForecast, sumF))
      errGap == RAbs(RSub(RSub(totalActual, totalForecast), RSub(sumA, sumF)))
  IN  /\ RLe(errA, RMul(HalfCent, rows))
      /\ (RSumSeq(weights.w1) = One /\ RSumSeq(weights.w2) = One) =>
           /\ RLe(errF, RMul(HalfCent, days))
           /\ RLe(errGap, RMul(HalfCent, RAdd(rows, days)))

\* Two transactions of 4 units worth 7/3 a unit under one key: the total is
\* 18.666..., the series sums to 18.66; two forecast lines of the material.
C25_Witness ==
  /\ Len(filteredActual) = 2 /\ Len(totalsValues) = 2
  /\ totalActual = Rat(56, 3) /\ sumA = Rat(1866, 100)
  /\ totalForecast = Rat(35, 3) /\ RLt(Zero, sumF)
  /\ RSumSeq(weights.w1) = One /\ RSumSeq(weights.w2) = One

\* ---------------------------------------------------------------- C26
\* A list of usage rows holds the key of record r (with its delta as the
\* difference, where asked).
usageHolds(rows, r, withDelta) ==
  \E i \in 1..Len(rows) :
    /\ rows[i].dept = r.dept /\ rows[i].no_mat = r.no_mat
    /\ withDelta => rows[i].diff = r.diff3

\* C26: with department mode all and material mode all, every key of
\* continuousOver is in overUsage with a difference equal to its
\* current-month delta, every key of continuousUnder is in underUsage, and
\* no key is in an over list and in an under list.
C26_ListsConsistent ==
  (filters.deptMode = "all" /\ filters.material = "all") =>
    LET co == continuousOver
        cu == continuousUnder
        ou == overUsageRows
        uu == underUsageRows
    IN  /\ \A i \in 1..Len(co) : usageHolds(ou, co[i], TRUE)
        /\ \A i \in 1..Len(cu) : usageHolds(uu, cu[i], FALSE)
        /\ (keysOf(co) \cup keysOf(ou)) \cap (keysOf(cu) \cup keysOf(uu)) = {}

\* (A, M1) is the one continuous key, over in each month and in overUsage
\* by 10, while (A, M2) is in a usage list of the month only.
C26_Witness ==
  /\ filters.deptMode = "all" /\ filters.material = "all"
  /\ \E i \in 1..Len(continuousOver) :
       /\ continuousOver[i].dept = DeptA /\ continuousOver[i].no_mat = M1
       /\ continuousOver[i].diff3 = RInt(10)
  /\ <<DeptA, M1>> \in keysOf(overUsageRows)
  /\ <<DeptA, M2>> \in keysOf(overUsageRows) \cup keysOf(underUsageRows)
  /\ Len(continuousOver) + Len(continuousUnder) = 1

\* ---------------------------------------------------------------- C28
\* The department of a stored row as it identifies a pair: its trimmed
\* text, empty for a row without department.
deptIdentity(d) == Trim(Coalesce(d, Empty))

\* The (department, material) pairs with a row in the window, and the
\* delta of a pair in a month of the window.
windowPairs ==
  {<<deptIdentity(db.actual[i].dept), db.actual[i].no_mat>> : i \in 1..Len(db.actual)} \cup
  {<<deptIdentity(db.forecast[i].shop), db.forecast[i].no_mat>> : i \in 1..Len(db.forecast)}

pairDelta(i, p) ==
  LET ym == threeMonthKeys[i]
      a == RSumSeq([n \in 1..Len(db.actual) |->
             LET r == db.actual[n]
             IN  IF ymKey(r.posting_date) = ym /\ deptIdentity(r.dept) = p[1]
                    /\ r.no_mat = p[2]
                 THEN RMul(RInt(safeNumber(r.quantity, 0)), storedUnitValue(p[2]))
                 ELSE Zero])
      f == RSumSeq([n \in 1..Len(db.forecast) |->
             LET r == db.forecast[n]
             IN  IF ymKey(r.month) = ym /\ deptIdentity(r.shop) = p[1]
                    /\ r.no_mat = p[2]
                 THEN RMul(RInt(safeNumber(r.usage, 0)), storedUnitValue(p[2]))
                 ELSE Zero])
  IN  toFixed2(RSub(a, f))

\* C28: the detector evaluates every pair with data in the window exactly
\* once, under the pair's own three deltas, whatever the department and
\* material texts are: as many records as pairs, and for every pair one
\* record shown under its department (the placeholder for an empty one) and
\* its material, holding its deltas.
C28_PairsEvaluated ==
  LET recs == diffRecs
      own(p) == {n \in 1..Len(recs) :
                   /\ recs[n].dept = (IF p[1] = Empty THEN Dash ELSE p[1])
                   /\ recs[n].no_mat = p[2]
                   /\ recs[n].diff1 = pairDelta(1, p)
                   /\ recs[n].diff2 = pairDelta(2, p)
                   /\ recs[n].diff3 = pairDelta(3, p)}
  IN  /\ Len(recs) = Cardinality(windowPairs)
      /\ \A p \in windowPairs : Cardinality(own(p)) = 1

\* ---------------------------------------------------------------- C27
\* A date of the selected (year, month).
ofSelectedMonth(d) == d[1] = filters.year /\ d[2] = filters.month

\* C27: in every state, reads in flight or not, the calendars and the rows
\* the daily series is computed from are those of the month of the date
\* axis: every calendar day held, every transaction and every forecast line
\* is of the selected (year, month).
C27_SameMonth ==
  /\ \A d \in Range(graphModeDates) : ofSelectedMonth(d)
  /\ \A d \in DOMAIN cal1 \cup DOMAIN cal2 : ofSelectedMonth(d)
  /\ \A i \in 1..Len(actualRows) : ofSelectedMonth(actualRows[i].posting_date)
  /\ \A i \in 1..Len(forecastRows) : ofSelectedMonth(forecastRows[i].month)

\* ---- C29
\* The store calls of one importNow call, in the order they were made.
purgeCalls == SelectSeq(imp.log, LAMBDA e : e.op = "purge")
insertCalls == SelectSeq(imp.log, LAMBDA e : e.op = "insert")
failedCalls == SelectSeq(imp.log, LAMBDA e : ~e.ok)

\* C29: importNow purges every affected month before any insert: once an
\* insert has been issued, every month of the prepared rows has been purged
\* with success and no purge follows; after a failed purge no insert is
\* issued at all; a failed call of either kind is the last call; so a
\* failed chunk is followed by no chunk, and the chunks issued are the
\* leading chunks of the prepared rows, each once and in order.  busy is
\* true exactly while the call is at one of its awaits, so it is false
\* once the call has finished, with or without an error.
C29_PurgeBeforeInsert ==
  /\ \A i, j \in 1..Len(imp.log) :
       i < j /\ imp.log[i].op = "insert" => imp.log[j].op = "insert"
  /\ insertCalls # << >> =>
       /\ [k \in 1..Len(purgeCalls) |-> purgeCalls[k].ym] = importMonths(imp.rows)
       /\ \A k \in 1..Len(purgeCalls) : purgeCalls[k].ok
  /\ \A i \in 1..Len(imp.log) : ~imp.log[i].ok => i = Len(imp.log)
  /\ (\E k \in 1..Len(purgeCalls) : ~purgeCalls[k].ok) => insertCalls = << >>
  /\ Len(insertCalls) <= Len(chunk(imp.rows, ChunkSize))
  /\ \A k \in 1..Len(insertCalls) :
       insertCalls[k].rows = chunk(imp.rows, ChunkSize)[k]
  /\ failedCalls # << >> => imp.pc = "done"
  /\ imp.busy <=> imp.pc \in {"purge", "insert", "refresh"}
  /\ imp.pc = "done" => ~imp.busy

\* A call that purged two months and then failed at its second chunk has
\* finished: two purges, one chunk stored, the failed chunk last.
C29_Witness ==
  /\ imp.pc = "done"
  /\ ~imp.busy
  /\ Len(purgeCalls) = 2
  /\ Len(insertCalls) = 2
  /\ insertCalls[1].ok
  /\ ~insertCalls[2].ok

\* ---- C30
\* The rows of a table whose posting date lies in the month ym.
rowsOfMonth(table, ym) == SelectSeq(table, LAMBDA r : inMonth(r, ym))

\* The rows of a table as a bag.
RowBag(table) ==
  [r \in Range(table) |-> Cardinality({i \in 1..Len(table) : table[i] = r})]

\* C30: after two successful imports of the same prepared rows in
\* succession the table actual holds the same rows as after the first, and
\* after a successful import the stored rows of every purged month are the
\* imported rows whose posting date lies in that month.
C30_Idempotent ==
  /\ imp.okRuns = 2 => RowBag(db.actual) = RowBag(imp.snap)
  /\ imp.pc = "done" /\ imp.okRuns > 0 =>
       \A k \in 1..Len(importMonths(imp.rows)) :
         LET ym == importMonths(imp.rows)[k]
         IN  rowsOfMonth(db.actual, ym) = rowsOfMonth(imp.rows, ym)

\* The same for prepared rows that all carry a posting date.
C30_IdempotentDated ==
  (\A i \in 1..Len(imp.rows) : isYmd(imp.rows[i].posting_date))
    => C30_Idempotent

\* Two successful imports of prepared rows of two months, all dated.
C30_Witness ==
  /\ imp.okRuns = 2
  /\ imp.pc = "done"
  /\ Len(importMonths(imp.rows)) = 2
  /\ \A i \in 1..Len(imp.rows) : isYmd(imp.rows[i].posting_date)


====
